---------------------------- MODULE Spec2Model ----------------------------
(***************************************************************************)
(* The scoring engine of the subsidy-application scoring tool              *)
(* (src/small_business_scoring_engine.py), as a state machine: a document  *)
(* is written, handed to score_application, and a result is returned.      *)
(* Further specifications run one engine instance over several calls       *)
(* (SpecSession), the application's pipeline analyze_pdf ->                *)
(* score_application (SpecApp) and the analyzer's amount extraction        *)
(* (SpecAmount) of src/small_business_analyzer.py.                         *)
(*                                                                         *)
(* Representation.                                                         *)
(*  - A string is a sequence of Unicode code points, so that Python's      *)
(*    substring test (`in`), str.lower() and the regular expressions are   *)
(*    computed on the characters rather than looked up.                    *)
(*  - A document is a set of fragments of Vocab joined by the separator    *)
(*    '。' (which occurs in no keyword and no pattern, so no match spans   *)
(*    two fragments) and padded with the same character up to text_length. *)
(*  - Scores are held in tenths (25.0 -> 250), weights in hundredths.      *)
(*    Python computes them in binary floating point; the model computes    *)
(*    the exact decimal value, and round(x, 1) of a value lying exactly    *)
(*    half-way between two tenths may come out either way, because which   *)
(*    way the double falls is decided by representation error.             *)
(***************************************************************************)
EXTENDS Integers, Sequences, FiniteSets, TLC

VARIABLES
    text,          \* the fragments of document_analysis['text_content']
    text_length,   \* len(text_content)
    added,         \* number of fragments written on top of the sample document
    strict_mode,   \* the strict_mode argument of the last call
    pc,            \* "writing" -> "ready" -> "scored"; "adjust_in" -> "adjust_out";
                   \* "idle" -> "scored"; "uploaded" -> "analyzed" -> "scored" / "failed";
                   \* "mention" -> "extracted"
    result,        \* the value returned by the last call
    calls,         \* number of score_application calls made on the engine instance
    input_kind,    \* the Python type of text_content ("str", "NoneType", "int",
                   \* "list"), or what the uploaded file is ("pdf", "broken_pdf")
    document_analysis  \* the value analyze_pdf returned

vars == <<text, text_length, added, strict_mode, pc, result,
          calls, input_kind, document_analysis>>

---------------------------------------------------------------------------
(* Bounds of the exploration *)

\* fragments that may be written on top of a sample document
MaxAdded == 1
\* upper end of the scores handed directly to _apply_strict_adjustment (tenths)
MaxScoreIn == 1000

---------------------------------------------------------------------------
(* Strings *)

Min(a, b) == IF a <= b THEN a ELSE b

Range(s) == {s[i] : i \in DOMAIN s}

\* Python: k in s
IsSubstring(k, s) ==
    \E i \in 1..(Len(s) - Len(k) + 1) : SubSeq(s, i, i + Len(k) - 1) = k

\* str.lower() on one character: ASCII and full-width Latin capitals are
\* the only cased characters of the vocabulary.
LowerChar(c) ==
    IF (c >= 65 /\ c <= 90) \/ (c >= 65313 /\ c <= 65338) THEN c + 32 ELSE c

\* str.lower() of a str with U+0130 (İ), which becomes the two characters
\* U+0069 U+0307: the one lower-casing that lengthens a str
RECURSIVE LowerSpecial(_)
LowerSpecial(s) ==
    IF s = <<>> THEN <<>>
    ELSE (IF Head(s) = 304 THEN <<105, 775>> ELSE <<LowerChar(Head(s))>>)
         \o LowerSpecial(Tail(s))

\* str.lower()
Lower(s) ==
    IF \A i \in DOMAIN s : s[i] # 304
    THEN [i \in DOMAIN s |-> LowerChar(s[i])]
    ELSE LowerSpecial(s)

\* \d of the re module on str: a decimal digit, ASCII or full-width
IsDigit(c) == (c >= 48 /\ c <= 57) \/ (c >= 65296 /\ c <= 65305)

\* characters used by the patterns
ch_man == 19975     \* 万
ch_oku == 20740     \* 億
ch_sen == 21315     \* 千
ch_hyaku == 30334   \* 百
ch_juu == 21313     \* 十
ch_en == 20870      \* 円
ch_nin == 20154     \* 人
ch_nen == 24180     \* 年
ch_gatsu == 26376   \* 月
ch_kai == 22238     \* 回
ch_percent == 37    \* %

At(s, i) == IF i \in DOMAIN s THEN s[i] ELSE 0

\* re.search(r'\d+[cls]u', s)
DigitsClassUnit(s, cls, u) ==
    \E i \in DOMAIN s : IsDigit(s[i]) /\ At(s, i + 1) \in cls /\ At(s, i + 2) = u

\* re.search(r'\d+u', s)
DigitsUnit(s, u) ==
    \E i \in DOMAIN s : IsDigit(s[i]) /\ At(s, i + 1) = u

\* re.search(r'\d+[cls]?u', s)
DigitsOptClassUnit(s, cls, u) ==
    DigitsUnit(s, u) \/ DigitsClassUnit(s, cls, u)

\* re.search(r'\d+年\d+月', s)
DigitsYearMonth(s) ==
    \E i \in DOMAIN s : \E j \in DOMAIN s :
        /\ IsDigit(s[i]) /\ At(s, i + 1) = ch_nen
        /\ j >= i + 3 /\ s[j] = ch_gatsu
        /\ \A k \in (i + 2)..(j - 1) : IsDigit(s[k])

\* The four criteria in declaration order (dict order of scoring_criteria):
\*   1 = 経営状況分析の妥当性
\*   2 = 経営方針・目標の適切性
\*   3 = 補助事業計画の有効性
\*   4 = 積算の透明・適切性
\* Weights are held in hundredths (0.3 -> 30).
_initialize_scoring_criteria ==
  <<
    \* 経営状況分析の妥当性
    [max_score |-> 25, sub_criteria |-> <<
      \* 企業概要の充実度: 事業内容, 創業, 沿革, 従業員, 売上, 顧客
      [weight |-> 30, keywords |-> <<
          <<20107, 26989, 20869, 23481>>,  \* 事業内容
          <<21109, 26989>>,  \* 創業
          <<27839, 38761>>,  \* 沿革
          <<24467, 26989, 21729>>,  \* 従業員
          <<22770, 19978>>,  \* 売上
          <<39015, 23458>>  \* 顧客
      >>],
      \* 売上・財務分析: 売上高, 利益, 推移, 増減, 要因, 財務
      [weight |-> 30, keywords |-> <<
          <<22770, 19978, 39640>>,  \* 売上高
          <<21033, 30410>>,  \* 利益
          <<25512, 31227>>,  \* 推移
          <<22679, 28187>>,  \* 増減
          <<35201, 22240>>,  \* 要因
          <<36001, 21209>>  \* 財務
      >>],
      \* 強み・弱み分析: 強み, 弱み, 特徴, 優位性, 課題, 問題
      [weight |-> 25, keywords |-> <<
          <<24375, 12415>>,  \* 強み
          <<24369, 12415>>,  \* 弱み
          <<29305, 24500>>,  \* 特徴
          <<20778, 20301, 24615>>,  \* 優位性
          <<35506, 38988>>,  \* 課題
          <<21839, 38988>>  \* 問題
      >>],
      \* 市場・競合認識: 市場, 競合, 業界, 動向, ライバル, シェア
      [weight |-> 15, keywords |-> <<
          <<24066, 22580>>,  \* 市場
          <<31478, 21512>>,  \* 競合
          <<26989, 30028>>,  \* 業界
          <<21205, 21521>>,  \* 動向
          <<12521, 12452, 12496, 12523>>,  \* ライバル
          <<12471, 12455, 12450>>  \* シェア
      >>]
    >>],
    \* 経営方針・目標の適切性
    [max_score |-> 25, sub_criteria |-> <<
      \* 経営方針の明確性: 方針, 理念, ビジョン, 目標, 戦略
      [weight |-> 30, keywords |-> <<
          <<26041, 37341>>,  \* 方針
          <<29702, 24565>>,  \* 理念
          <<12499, 12472, 12519, 12531>>,  \* ビジョン
          <<30446, 27161>>,  \* 目標
          <<25126, 30053>>  \* 戦略
      >>],
      \* 数値目標の具体性: 売上目標, 集客, 単価, 年度, 増加, ○○円, ○○人
      [weight |-> 40, keywords |-> <<
          <<22770, 19978, 30446, 27161>>,  \* 売上目標
          <<38598, 23458>>,  \* 集客
          <<21336, 20385>>,  \* 単価
          <<24180, 24230>>,  \* 年度
          <<22679, 21152>>,  \* 増加
          <<9675, 9675, 20870>>,  \* ○○円
          <<9675, 9675, 20154>>  \* ○○人
      >>],
      \* 市場・顧客対応: 顧客ニーズ, 市場動向, ターゲット, 需要
      [weight |-> 20, keywords |-> <<
          <<39015, 23458, 12491, 12540, 12474>>,  \* 顧客ニーズ
          <<24066, 22580, 21205, 21521>>,  \* 市場動向
          <<12479, 12540, 12466, 12483, 12488>>,  \* ターゲット
          <<38656, 35201>>  \* 需要
      >>],
      \* 実現可能性: 計画, 段階, ステップ, 期間, 実施
      [weight |-> 10, keywords |-> <<
          <<35336, 30011>>,  \* 計画
          <<27573, 38542>>,  \* 段階
          <<12473, 12486, 12483, 12503>>,  \* ステップ
          <<26399, 38291>>,  \* 期間
          <<23455, 26045>>  \* 実施
      >>]
    >>],
    \* 補助事業計画の有効性
    [max_score |-> 30, sub_criteria |-> <<
      \* 事業計画の具体性: 具体的, 詳細, 内容, 方法, 手順
      [weight |-> 30, keywords |-> <<
          <<20855, 20307, 30340>>,  \* 具体的
          <<35443, 32048>>,  \* 詳細
          <<20869, 23481>>,  \* 内容
          <<26041, 27861>>,  \* 方法
          <<25163, 38918>>  \* 手順
      >>],
      \* 販路開拓の有効性: 販路, 新規, 開拓, 顧客獲得, PR, 宣伝
      [weight |-> 25, keywords |-> <<
          <<36009, 36335>>,  \* 販路
          <<26032, 35215>>,  \* 新規
          <<38283, 25299>>,  \* 開拓
          <<39015, 23458, 29554, 24471>>,  \* 顧客獲得
          <<80, 82>>,  \* PR
          <<23459, 20253>>  \* 宣伝
      >>],
      \* 新規性・独自性: 新たな, 独自, 他社にない, 差別化, 特色
      [weight |-> 20, keywords |-> <<
          <<26032, 12383, 12394>>,  \* 新たな
          <<29420, 33258>>,  \* 独自
          <<20182, 31038, 12395, 12394, 12356>>,  \* 他社にない
          <<24046, 21029, 21270>>,  \* 差別化
          <<29305, 33394>>  \* 特色
      >>],
      \* デジタル活用: デジタル, IT, ホームページ, SNS, システム, DX
      [weight |-> 15, keywords |-> <<
          <<12487, 12472, 12479, 12523>>,  \* デジタル
          <<73, 84>>,  \* IT
          <<12507, 12540, 12512, 12506, 12540, 12472>>,  \* ホームページ
          <<83, 78, 83>>,  \* SNS
          <<12471, 12473, 12486, 12512>>,  \* システム
          <<68, 88>>  \* DX
      >>],
      \* 効果・成果予測: 効果, 成果, 売上増, 集客増, 効率化
      [weight |-> 10, keywords |-> <<
          <<21177, 26524>>,  \* 効果
          <<25104, 26524>>,  \* 成果
          <<22770, 19978, 22679>>,  \* 売上増
          <<38598, 23458, 22679>>,  \* 集客増
          <<21177, 29575, 21270>>  \* 効率化
      >>]
    >>],
    \* 積算の透明・適切性
    [max_score |-> 20, sub_criteria |-> <<
      \* 経費明細の妥当性: 経費, 明細, 内訳, 単価, 数量
      [weight |-> 40, keywords |-> <<
          <<32076, 36027>>,  \* 経費
          <<26126, 32048>>,  \* 明細
          <<20869, 35379>>,  \* 内訳
          <<21336, 20385>>,  \* 単価
          <<25968, 37327>>  \* 数量
      >>],
      \* 必要性の説明: 必要, 理由, 根拠, 効果, 目的
      [weight |-> 30, keywords |-> <<
          <<24517, 35201>>,  \* 必要
          <<29702, 30001>>,  \* 理由
          <<26681, 25312>>,  \* 根拠
          <<21177, 26524>>,  \* 効果
          <<30446, 30340>>  \* 目的
      >>],
      \* 計算の正確性: 合計, 計算, 金額, ×, 円
      [weight |-> 20, keywords |-> <<
          <<21512, 35336>>,  \* 合計
          <<35336, 31639>>,  \* 計算
          <<37329, 38989>>,  \* 金額
          <<215>>,  \* ×
          <<20870>>  \* 円
      >>],
      \* 補助対象適合性: 補助対象, 対象経費, 適用
      [weight |-> 10, keywords |-> <<
          <<35036, 21161, 23550, 35937>>,  \* 補助対象
          <<23550, 35937, 32076, 36027>>,  \* 対象経費
          <<36969, 29992>>  \* 適用
      >>]
    >>]
  >>

\* a table whose first sub-criterion of criterion 4 weighs 0.45 instead of 0.4
scoring_criteria_overweight ==
    [_initialize_scoring_criteria EXCEPT ![4].sub_criteria[1].weight = 45]

\* self.scoring_criteria = self._initialize_scoring_criteria()
scoring_criteria == _initialize_scoring_criteria

\* bonus_criteria['priority_bonus'] in declaration order:
\*   1 = 赤字賃上げ加点
\*   2 = 事業環境変化加点
\*   3 = 東日本大震災加点
\*   4 = くるみん・えるぼし加点
priority_bonus ==
  <<
    \* 赤字賃上げ加点: 赤字, 賃上げ, 賃金引上げ
    [points |-> 5, keywords |-> <<
        <<36196, 23383>>,  \* 赤字
        <<36035, 19978, 12370>>,  \* 賃上げ
        <<36035, 37329, 24341, 19978, 12370>>  \* 賃金引上げ
    >>],
    \* 事業環境変化加点: 物価高騰, コロナ, 環境変化, 影響
    [points |-> 5, keywords |-> <<
        <<29289, 20385, 39640, 39472>>,  \* 物価高騰
        <<12467, 12525, 12490>>,  \* コロナ
        <<29872, 22659, 22793, 21270>>,  \* 環境変化
        <<24433, 38911>>  \* 影響
    >>],
    \* 東日本大震災加点: 震災, 被災, 復興
    [points |-> 3, keywords |-> <<
        <<38663, 28797>>,  \* 震災
        <<34987, 28797>>,  \* 被災
        <<24489, 33288>>  \* 復興
    >>],
    \* くるみん・えるぼし加点: くるみん, えるぼし, 女性活躍
    [points |-> 3, keywords |-> <<
        <<12367, 12427, 12415, 12435>>,  \* くるみん
        <<12360, 12427, 12412, 12375>>,  \* えるぼし
        <<22899, 24615, 27963, 36493>>  \* 女性活躍
    >>]
  >>

\* bonus_criteria['policy_bonus'] in declaration order:
\*   1 = 賃金引上げ加点
\*   2 = 地方創生型加点
\*   3 = 経営力向上計画加点
\*   4 = 事業承継加点
\*   5 = 過疎地域加点
policy_bonus ==
  <<
    \* 賃金引上げ加点: 賃上げ, 30円, 時給, 昇給
    [points |-> 3, keywords |-> <<
        <<36035, 19978, 12370>>,  \* 賃上げ
        <<51, 48, 20870>>,  \* 30円
        <<26178, 32102>>,  \* 時給
        <<26119, 32102>>  \* 昇給
    >>],
    \* 地方創生型加点: 地域資源, 地方創生, 地域活性化
    [points |-> 3, keywords |-> <<
        <<22320, 22495, 36039, 28304>>,  \* 地域資源
        <<22320, 26041, 21109, 29983>>,  \* 地方創生
        <<22320, 22495, 27963, 24615, 21270>>  \* 地域活性化
    >>],
    \* 経営力向上計画加点: 経営力向上計画, 認定
    [points |-> 2, keywords |-> <<
        <<32076, 21942, 21147, 21521, 19978, 35336, 30011>>,  \* 経営力向上計画
        <<35469, 23450>>  \* 認定
    >>],
    \* 事業承継加点: 事業承継, 後継者, 60歳
    [points |-> 3, keywords |-> <<
        <<20107, 26989, 25215, 32153>>,  \* 事業承継
        <<24460, 32153, 32773>>,  \* 後継者
        <<54, 48, 27507>>  \* 60歳
    >>],
    \* 過疎地域加点: 過疎地域
    [points |-> 2, keywords |-> <<
        <<36942, 30094, 22320, 22495>>  \* 過疎地域
    >>]
  >>

\* required_items of _check_basic_requirements, in order:
\*   1 = 企業概要
\*   2 = 売上情報
\*   3 = 経営方針
\*   4 = 補助事業計画
required_items ==
  <<
    \* 企業概要: 事業内容, 業種, 従業員
    <<
      <<20107, 26989, 20869, 23481>>,  \* 事業内容
      <<26989, 31278>>,  \* 業種
      <<24467, 26989, 21729>>  \* 従業員
    >>,
    \* 売上情報: 売上, 売上高, 利益
    <<
      <<22770, 19978>>,  \* 売上
      <<22770, 19978, 39640>>,  \* 売上高
      <<21033, 30410>>  \* 利益
    >>,
    \* 経営方針: 方針, 目標, 計画
    <<
      <<26041, 37341>>,  \* 方針
      <<30446, 27161>>,  \* 目標
      <<35336, 30011>>  \* 計画
    >>,
    \* 補助事業計画: 補助事業, 計画, 内容
    <<
      <<35036, 21161, 20107, 26989>>,  \* 補助事業
      <<35336, 30011>>,  \* 計画
      <<20869, 23481>>  \* 内容
    >>
  >>

\* concrete_patterns of _evaluate_content_quality
concrete_patterns ==
  <<
    <<20855, 20307, 30340, 12395>>,  \* 具体的に
    <<35443, 32048>>,  \* 詳細
    <<26126, 30906>>,  \* 明確
    <<9675, 9675>>,  \* ○○
    <<12395, 12388, 12356, 12390>>,  \* について
    <<12395, 12424, 12426>>  \* により
  >>

\* The fragments a sample document is written from: a greeting that holds
\* no keyword, every keyword of the rubric, gate and bonus tables, the
\* concrete expressions, numeric mentions of each shape, and a word whose
\* capital letter becomes two characters in lower case.
Vocab ==
  <<
    <<12371, 12435, 12395, 12385, 12399>>,  \* 1: こんにちは
    <<20107, 26989, 20869, 23481>>,  \* 2: 事業内容
    <<21109, 26989>>,  \* 3: 創業
    <<27839, 38761>>,  \* 4: 沿革
    <<24467, 26989, 21729>>,  \* 5: 従業員
    <<22770, 19978>>,  \* 6: 売上
    <<39015, 23458>>,  \* 7: 顧客
    <<22770, 19978, 39640>>,  \* 8: 売上高
    <<21033, 30410>>,  \* 9: 利益
    <<25512, 31227>>,  \* 10: 推移
    <<22679, 28187>>,  \* 11: 増減
    <<35201, 22240>>,  \* 12: 要因
    <<36001, 21209>>,  \* 13: 財務
    <<24375, 12415>>,  \* 14: 強み
    <<24369, 12415>>,  \* 15: 弱み
    <<29305, 24500>>,  \* 16: 特徴
    <<20778, 20301, 24615>>,  \* 17: 優位性
    <<35506, 38988>>,  \* 18: 課題
    <<21839, 38988>>,  \* 19: 問題
    <<24066, 22580>>,  \* 20: 市場
    <<31478, 21512>>,  \* 21: 競合
    <<26989, 30028>>,  \* 22: 業界
    <<21205, 21521>>,  \* 23: 動向
    <<12521, 12452, 12496, 12523>>,  \* 24: ライバル
    <<12471, 12455, 12450>>,  \* 25: シェア
    <<26041, 37341>>,  \* 26: 方針
    <<29702, 24565>>,  \* 27: 理念
    <<12499, 12472, 12519, 12531>>,  \* 28: ビジョン
    <<30446, 27161>>,  \* 29: 目標
    <<25126, 30053>>,  \* 30: 戦略
    <<22770, 19978, 30446, 27161>>,  \* 31: 売上目標
    <<38598, 23458>>,  \* 32: 集客
    <<21336, 20385>>,  \* 33: 単価
    <<24180, 24230>>,  \* 34: 年度
    <<22679, 21152>>,  \* 35: 増加
    <<9675, 9675, 20870>>,  \* 36: ○○円
    <<9675, 9675, 20154>>,  \* 37: ○○人
    <<39015, 23458, 12491, 12540, 12474>>,  \* 38: 顧客ニーズ
    <<24066, 22580, 21205, 21521>>,  \* 39: 市場動向
    <<12479, 12540, 12466, 12483, 12488>>,  \* 40: ターゲット
    <<38656, 35201>>,  \* 41: 需要
    <<35336, 30011>>,  \* 42: 計画
    <<27573, 38542>>,  \* 43: 段階
    <<12473, 12486, 12483, 12503>>,  \* 44: ステップ
    <<26399, 38291>>,  \* 45: 期間
    <<23455, 26045>>,  \* 46: 実施
    <<20855, 20307, 30340>>,  \* 47: 具体的
    <<35443, 32048>>,  \* 48: 詳細
    <<20869, 23481>>,  \* 49: 内容
    <<26041, 27861>>,  \* 50: 方法
    <<25163, 38918>>,  \* 51: 手順
    <<36009, 36335>>,  \* 52: 販路
    <<26032, 35215>>,  \* 53: 新規
    <<38283, 25299>>,  \* 54: 開拓
    <<39015, 23458, 29554, 24471>>,  \* 55: 顧客獲得
    <<80, 82>>,  \* 56: PR
    <<23459, 20253>>,  \* 57: 宣伝
    <<26032, 12383, 12394>>,  \* 58: 新たな
    <<29420, 33258>>,  \* 59: 独自
    <<20182, 31038, 12395, 12394, 12356>>,  \* 60: 他社にない
    <<24046, 21029, 21270>>,  \* 61: 差別化
    <<29305, 33394>>,  \* 62: 特色
    <<12487, 12472, 12479, 12523>>,  \* 63: デジタル
    <<73, 84>>,  \* 64: IT
    <<12507, 12540, 12512, 12506, 12540, 12472>>,  \* 65: ホームページ
    <<83, 78, 83>>,  \* 66: SNS
    <<12471, 12473, 12486, 12512>>,  \* 67: システム
    <<68, 88>>,  \* 68: DX
    <<21177, 26524>>,  \* 69: 効果
    <<25104, 26524>>,  \* 70: 成果
    <<22770, 19978, 22679>>,  \* 71: 売上増
    <<38598, 23458, 22679>>,  \* 72: 集客増
    <<21177, 29575, 21270>>,  \* 73: 効率化
    <<32076, 36027>>,  \* 74: 経費
    <<26126, 32048>>,  \* 75: 明細
    <<20869, 35379>>,  \* 76: 内訳
    <<25968, 37327>>,  \* 77: 数量
    <<24517, 35201>>,  \* 78: 必要
    <<29702, 30001>>,  \* 79: 理由
    <<26681, 25312>>,  \* 80: 根拠
    <<30446, 30340>>,  \* 81: 目的
    <<21512, 35336>>,  \* 82: 合計
    <<35336, 31639>>,  \* 83: 計算
    <<37329, 38989>>,  \* 84: 金額
    <<215>>,  \* 85: ×
    <<20870>>,  \* 86: 円
    <<35036, 21161, 23550, 35937>>,  \* 87: 補助対象
    <<23550, 35937, 32076, 36027>>,  \* 88: 対象経費
    <<36969, 29992>>,  \* 89: 適用
    <<26989, 31278>>,  \* 90: 業種
    <<35036, 21161, 20107, 26989>>,  \* 91: 補助事業
    <<36196, 23383>>,  \* 92: 赤字
    <<36035, 19978, 12370>>,  \* 93: 賃上げ
    <<36035, 37329, 24341, 19978, 12370>>,  \* 94: 賃金引上げ
    <<29289, 20385, 39640, 39472>>,  \* 95: 物価高騰
    <<12467, 12525, 12490>>,  \* 96: コロナ
    <<29872, 22659, 22793, 21270>>,  \* 97: 環境変化
    <<24433, 38911>>,  \* 98: 影響
    <<38663, 28797>>,  \* 99: 震災
    <<34987, 28797>>,  \* 100: 被災
    <<24489, 33288>>,  \* 101: 復興
    <<12367, 12427, 12415, 12435>>,  \* 102: くるみん
    <<12360, 12427, 12412, 12375>>,  \* 103: えるぼし
    <<22899, 24615, 27963, 36493>>,  \* 104: 女性活躍
    <<51, 48, 20870>>,  \* 105: 30円
    <<26178, 32102>>,  \* 106: 時給
    <<26119, 32102>>,  \* 107: 昇給
    <<22320, 22495, 36039, 28304>>,  \* 108: 地域資源
    <<22320, 26041, 21109, 29983>>,  \* 109: 地方創生
    <<22320, 22495, 27963, 24615, 21270>>,  \* 110: 地域活性化
    <<32076, 21942, 21147, 21521, 19978, 35336, 30011>>,  \* 111: 経営力向上計画
    <<35469, 23450>>,  \* 112: 認定
    <<20107, 26989, 25215, 32153>>,  \* 113: 事業承継
    <<24460, 32153, 32773>>,  \* 114: 後継者
    <<54, 48, 27507>>,  \* 115: 60歳
    <<36942, 30094, 22320, 22495>>,  \* 116: 過疎地域
    <<20855, 20307, 30340, 12395>>,  \* 117: 具体的に
    <<26126, 30906>>,  \* 118: 明確
    <<9675, 9675>>,  \* 119: ○○
    <<12395, 12388, 12356, 12390>>,  \* 120: について
    <<12395, 12424, 12426>>,  \* 121: により
    <<50, 48, 50, 52, 24180, 52, 26376>>,  \* 122: 2024年4月
    <<50, 48, 50, 52, 24180>>,  \* 123: 2024年
    <<53, 48, 48, 19975, 20870>>,  \* 124: 500万円
    <<51, 20740, 20870>>,  \* 125: 3億円
    <<50, 21315, 20870>>,  \* 126: 2千円
    <<51, 30334, 20870>>,  \* 127: 3百円
    <<49, 48, 48, 20870>>,  \* 128: 100円
    <<51, 21315, 20154>>,  \* 129: 3千人
    <<53, 19975, 20154>>,  \* 130: 5万人
    <<49, 50, 20154>>,  \* 131: 12人
    <<50, 48, 37>>,  \* 132: 20%
    <<51, 22238>>,  \* 133: 3回
    <<304, 115, 116, 97, 110, 98, 117, 108>>  \* 134: İstanbul
  >>

\* What an applicant writes on top of a sample document: every fragment
\* outside the rubric lists (greeting, gate, bonus, concrete expressions,
\* numeric mentions) and the last keyword of each rubric list:
\*   顧客, 財務, 問題, シェア, 戦略, ○○人, 需要, 実施, 手順,
\*   宣伝, 特色, DX, 効率化, 数量, 目的, 円, 適用
WritableFrags == 
    {1, 7, 13, 19, 25, 30, 37, 41, 46, 51, 57, 62, 68, 73, 77, 81, 86,
     89, 90, 91, 92, 93, 94, 95, 96, 97, 98, 99, 100, 101, 102, 103,
     104, 105, 106, 107, 108, 109, 110, 111, 112, 113, 114, 115, 116,
     117, 118, 119, 120, 121, 122, 123, 124, 125, 126, 127, 128, 129,
     130, 131, 132, 133, 134}

\* A document with no keyword at all: こんにちは
BlankDoc == {1}
\* One keyword of each gate group:
\*   事業内容, 売上, 方針, 補助事業
GateDoc == {2, 6, 26, 91}
\* GateDoc with one priority-bonus and one policy-bonus keyword:
\*   赤字, 地域資源
BonusDoc == {2, 6, 26, 91, 92, 108}
\* The first keyword of each of the 17 sub-criterion lists and one amount:
\*   事業内容, 売上高, 強み, 市場, 方針, 売上目標, 顧客ニーズ, 計画,
\*   具体的, 販路, 新たな, デジタル, 効果, 経費, 必要, 合計,
\*   補助対象, 500万円
OneEachDoc == 
    {2, 8, 14, 20, 26, 31, 38, 42, 47, 52, 58, 63, 69, 74, 78, 82, 87,
     124}
\* The first two keywords of each sub-criterion list, four numeric shapes
\* (2024年4月, 500万円, 3千人, 20%) and one concrete expression (具体的に).
TwoEachDoc == 
    {2, 3, 8, 9, 14, 15, 20, 21, 26, 27, 31, 32, 38, 39, 42, 43, 47,
     48, 52, 53, 58, 59, 63, 64, 69, 70, 74, 75, 78, 79, 82, 83, 87,
     88, 117, 122, 124, 129, 132}
\* Every rubric keyword as written in the tables, the five numeric shapes
\* (2024年4月, 500万円, 3千人, 20%, 3回) and two concrete expressions
\* (具体的に, 明確).
FullDoc == 
    {2, 3, 4, 5, 6, 7, 8, 9, 10, 11, 12, 13, 14, 15, 16, 17, 18, 19,
     20, 21, 22, 23, 24, 25, 26, 27, 28, 29, 30, 31, 32, 33, 34, 35,
     36, 37, 38, 39, 40, 41, 42, 43, 44, 45, 46, 47, 48, 49, 50, 51,
     52, 53, 54, 55, 56, 57, 58, 59, 60, 61, 62, 63, 64, 65, 66, 67,
     68, 69, 70, 71, 72, 73, 74, 75, 76, 77, 78, 79, 80, 81, 82, 83,
     84, 85, 86, 87, 88, 89, 117, 118, 122, 124, 129, 132, 133}

---------------------------------------------------------------------------
(* Matching a document *)

Frags == DOMAIN Vocab

SeqSum(s) ==
    LET RECURSIVE Go(_)
        Go(i) == IF i > Len(s) THEN 0 ELSE s[i] + Go(i + 1)
    IN  Go(1)

\* every keyword of the rubric, bonus and gate tables and the concrete expressions
Keywords ==
    UNION { UNION { Range(scoring_criteria[c].sub_criteria[s].keywords) :
                    s \in DOMAIN scoring_criteria[c].sub_criteria } :
            c \in DOMAIN scoring_criteria }
    \cup UNION { Range(priority_bonus[b].keywords) : b \in DOMAIN priority_bonus }
    \cup UNION { Range(policy_bonus[b].keywords) : b \in DOMAIN policy_bonus }
    \cup UNION { Range(required_items[g]) : g \in DOMAIN required_items }
    \cup Range(concrete_patterns)

\* every (fragment, keyword) pair
FragKeywordPairs == {<<i, k>> : i \in Frags, k \in Keywords}

\* the pairs with keyword in fragment, for the text as written
\* (_check_basic_requirements reads text_content unchanged)
RawPairs == {p \in FragKeywordPairs : IsSubstring(p[2], Vocab[p[1]])}

\* the pairs with keyword in fragment.lower() (the scorer, the bonus analysis
\* and the improvements lower-case the text, never the keyword)
LowerPairs == {p \in FragKeywordPairs : IsSubstring(p[2], Lower(Vocab[p[1]]))}

\* the keywords k with `k in text_content` / `k in text_content.lower()`
FoundRaw(doc) == {p[2] : p \in {q \in RawPairs : q[1] \in doc}}
FoundLower(doc) == {p[2] : p \in {q \in LowerPairs : q[1] \in doc}}

\* r'\d+[万億千百十]?円|\d+[万千百十]?人|\d+%|\d+年'
re_quality_numeric(s) ==
    \/ DigitsOptClassUnit(s, {ch_man, ch_oku, ch_sen, ch_hyaku, ch_juu}, ch_en)
    \/ DigitsOptClassUnit(s, {ch_man, ch_sen, ch_hyaku, ch_juu}, ch_nin)
    \/ DigitsUnit(s, ch_percent)
    \/ DigitsUnit(s, ch_nen)

\* numeric_patterns of _evaluate_specificity, in order
re_date(s) == DigitsYearMonth(s)
re_amount(s) == DigitsClassUnit(s, {ch_man, ch_oku, ch_sen}, ch_en)
re_headcount(s) == DigitsClassUnit(s, {ch_man, ch_sen}, ch_nin)
re_percent(s) == DigitsUnit(s, ch_percent)
re_count(s) == DigitsUnit(s, ch_kai)

\* r'\d+[万億千]円|\d+[万千]人' of _apply_strict_adjustment
re_amount_or_headcount(s) == re_amount(s) \/ re_headcount(s)

\* the fragments whose lower-cased text each pattern matches
QualityNumericFrags == {i \in Frags : re_quality_numeric(Lower(Vocab[i]))}
DateFrags == {i \in Frags : re_date(Lower(Vocab[i]))}
AmountFrags == {i \in Frags : re_amount(Lower(Vocab[i]))}
HeadcountFrags == {i \in Frags : re_headcount(Lower(Vocab[i]))}
PercentFrags == {i \in Frags : re_percent(Lower(Vocab[i]))}
CountFrags == {i \in Frags : re_count(Lower(Vocab[i]))}
AmountOrHeadcountFrags == {i \in Frags : re_amount_or_headcount(Lower(Vocab[i]))}

\* re.search(pattern, text_content.lower()) for a pattern given by its fragments
Search(patternFrags, doc) == doc \cap patternFrags # {}

---------------------------------------------------------------------------
(* Rounding *)

\* round(num / den, 1) of a value held in tenths: the nearest integers of
\* num / den; both neighbours when num / den is exactly half-way.
RoundTenth(num, den) ==
    LET q == num \div den
        r == num % den
    IN  IF 2 * r < den THEN {q}
        ELSE IF 2 * r > den THEN {q + 1}
        ELSE {q, q + 1}

---------------------------------------------------------------------------
(* _check_basic_requirements *)

\* item names of the gate's improvements, f'{item_name}の記載不足'
gate_item ==
    << "company_overview_missing",   \* 企業概要の記載不足
       "sales_info_missing",         \* 売上情報の記載不足
       "management_policy_missing",  \* 経営方針の記載不足
       "subsidy_plan_missing" >>     \* 補助事業計画の記載不足

\* priorities: 緊急 = "urgent", 重要 = "important", 推奨 = "recommended"
\* levels: 優秀 = "excellent", 良好 = "good", 普通 = "fair",
\*         不十分 = "insufficient", 不適格 = "disqualified", エラー = "error"

\* GroupHit with every keyword of the group demanded (all() for any())
GroupHit_all(g, found) == \A k \in Range(required_items[g]) : k \in found

GroupHit(g, found) == \E k \in Range(required_items[g]) : k \in found

\* _check_basic_requirements that stops at the first missing group
_check_basic_requirements_first_only(doc) ==
    LET found == FoundRaw(doc)
        missing == {g \in DOMAIN required_items : ~GroupHit(g, found)}
        first == CHOOSE g \in missing : \A h \in missing : g <= h
    IN  [passed |-> missing = {},
         improvements |-> IF missing = {} THEN <<>>
                          ELSE <<[item |-> gate_item[first], priority |-> "urgent"]>>]

\* the loop over required_items, given the keywords for which
\* `keyword in text_content` holds
check_required_items(found) ==
    LET RECURSIVE Issues(_)
        Issues(g) ==
            IF g > Len(required_items) THEN <<>>
            ELSE (IF GroupHit(g, found) THEN <<>>
                  ELSE <<[item |-> gate_item[g], priority |-> "urgent"]>>)
                 \o Issues(g + 1)
    IN  [passed |-> \A g \in DOMAIN required_items : GroupHit(g, found),
         improvements |-> Issues(1)]

_check_basic_requirements(doc) == check_required_items(FoundRaw(doc))

---------------------------------------------------------------------------
(* _score_detailed_criteria *)

\* by how many characters lower-casing lengthens each fragment
LowerGrowth == [i \in Frags |-> Len(Lower(Vocab[i])) - Len(Vocab[i])]

\* len(text_content.lower()) of a text of len characters
LoweredLength(doc, len) ==
    len + Cardinality(UNION {{i} \X (1..LowerGrowth[i]) : i \in doc})

\* _evaluate_content_quality, in thirtieths (0.2 -> 6, 0.3 -> 9), of the
\* lower-cased text that _score_detailed_criteria hands over; the keywords
\* argument is not read
_evaluate_content_quality(doc, len) ==
    LET found == FoundLower(doc)
        text_len == LoweredLength(doc, len)
        concrete_matches == Cardinality({p \in Range(concrete_patterns) : p \in found})
        q == (IF text_len > 500 THEN 6 ELSE 0)
             + (IF text_len > 1000 THEN 6 ELSE 0)
             + (IF Search(QualityNumericFrags, doc) THEN 9 ELSE 0)
             + Min(9, (30 * concrete_matches) \div Len(concrete_patterns))
    IN  Min(30, q)

\* _evaluate_specificity that adds 0.1 instead of 0.2 for each shape
_evaluate_specificity_tenth(doc) ==
    LET numeric_patterns == <<DateFrags, AmountFrags, HeadcountFrags, PercentFrags, CountFrags>>
        n == Cardinality({p \in DOMAIN numeric_patterns : Search(numeric_patterns[p], doc)})
    IN  Min(30, 3 * n)

\* _evaluate_specificity, in thirtieths; the keywords argument is not read
_evaluate_specificity(doc) ==
    LET numeric_patterns == <<DateFrags, AmountFrags, HeadcountFrags, PercentFrags, CountFrags>>
        n == Cardinality({p \in DOMAIN numeric_patterns : Search(numeric_patterns[p], doc)})
    IN  Min(30, 6 * n)

\* the least common multiple of the keyword-list lengths 3, 4, 5, 6, 7
ListLcm == 420

\* keyword_matches of one sub-criterion
keyword_matches(sub, found) ==
    Cardinality({i \in DOMAIN sub.keywords : sub.keywords[i] \in found})

\* sub_score without the min(1.0, ...) cap on keyword_score
sub_score_uncapped(sub, found, quality, specificity) ==
    LET n == Len(sub.keywords)
        k == 3 * keyword_matches(sub, found)
    IN  (20 * k + n * (quality + specificity)) * sub.weight * (ListLcm \div n)

\* sub_score of one sub-criterion as a numerator over 100 * 100 * ListLcm:
\*   keyword_score = min(1.0, matches / n * 1.5) = min(2n, 3 matches) / 2n
\*   sub_score = (keyword_score * 0.4 + quality * 0.3 + specificity * 0.3) * weight
sub_score(sub, found, quality, specificity) ==
    LET n == Len(sub.keywords)
        k == Min(2 * n, 3 * keyword_matches(sub, found))
    IN  (20 * k + n * (quality + specificity)) * sub.weight * (ListLcm \div n)

SubScoreDen == 100 * 100 * ListLcm

\* what the loop body reads from the text: the keywords found in
\* text_content.lower() and the two scores that are computed anew for every
\* sub-criterion from the text alone
ScorerInputs(doc, len) ==
    [found |-> FoundLower(doc),
     quality |-> _evaluate_content_quality(doc, len),
     specificity |-> _evaluate_specificity(doc)]

\* sub_scores whose specificity is granted only to a sub-criterion with a
\* keyword of its own list in the text
criterion_sub_scores_own_keywords(c, inputs) ==
    LET crit == scoring_criteria[c]
    IN  [s \in DOMAIN crit.sub_criteria |->
            sub_score(crit.sub_criteria[s], inputs.found, inputs.quality,
                      IF keyword_matches(crit.sub_criteria[s], inputs.found) > 0
                      THEN inputs.specificity ELSE 0)]

\* the list sub_scores of one criterion, numerators over SubScoreDen
criterion_sub_scores(c, inputs) ==
    LET crit == scoring_criteria[c]
    IN  [s \in DOMAIN crit.sub_criteria |->
            sub_score(crit.sub_criteria[s], inputs.found,
                      inputs.quality, inputs.specificity)]

\* a criterion score whose strict_mode factor is 0.9
criterion_score_strict_nine(c, inputs, strict) ==
    LET base == SeqSum(criterion_sub_scores(c, inputs)) * scoring_criteria[c].max_score
    IN  RoundTenth(base * (IF strict THEN 9 ELSE 10), SubScoreDen)

\* the possible values of round(base_score, 1) of one criterion, in tenths
criterion_score(c, inputs, strict) ==
    LET base == SeqSum(criterion_sub_scores(c, inputs)) * scoring_criteria[c].max_score
    IN  RoundTenth(base * (IF strict THEN 8 ELSE 10), SubScoreDen)

\* the possible detailed_scores of the criteria c, c + 1, ...
RECURSIVE ScoresFrom(_, _, _)
ScoresFrom(c, inputs, strict) ==
    IF c > Len(scoring_criteria) THEN {<<>>}
    ELSE { <<[score |-> sc, max_score |-> scoring_criteria[c].max_score,
              sub_scores |-> criterion_sub_scores(c, inputs)]>> \o rest :
           sc \in criterion_score(c, inputs, strict),
           rest \in ScoresFrom(c + 1, inputs, strict) }

_score_detailed_criteria(doc, len, strict) ==
    ScoresFrom(1, ScorerInputs(doc, len), strict)

---------------------------------------------------------------------------
(* _analyze_bonus_points *)

BonusList(table, found) ==
    [b \in DOMAIN table |->
        LET eligible == \E k \in Range(table[b].keywords) : k \in found
        IN  [eligible |-> eligible,
             points |-> IF eligible THEN table[b].points ELSE 0]]

\* _analyze_bonus_points whose total leaves the policy table out
_analyze_bonus_points_priority_only(doc) ==
    LET found == FoundLower(doc)
        priority_bonuses == BonusList(priority_bonus, found)
        policy_bonuses == BonusList(policy_bonus, found)
    IN  [total_points |->
             SeqSum([b \in DOMAIN priority_bonus |->
                        IF priority_bonuses[b].eligible THEN priority_bonus[b].points ELSE 0]),
         priority_bonuses |-> priority_bonuses,
         policy_bonuses |-> policy_bonuses]

_analyze_bonus_points(doc) ==
    LET found == FoundLower(doc)
        priority_bonuses == BonusList(priority_bonus, found)
        policy_bonuses == BonusList(policy_bonus, found)
    IN  [total_points |->
             SeqSum([b \in DOMAIN priority_bonus |->
                        IF priority_bonuses[b].eligible THEN priority_bonus[b].points ELSE 0])
             + SeqSum([b \in DOMAIN policy_bonus |->
                        IF policy_bonuses[b].eligible THEN policy_bonus[b].points ELSE 0]),
         priority_bonuses |-> priority_bonuses,
         policy_bonuses |-> policy_bonuses]

---------------------------------------------------------------------------
(* _apply_strict_adjustment *)

\* the factor of the length branch, in hundredths
LengthFactor(len) ==
    IF len < 500 THEN 70
    ELSE IF len < 1000 THEN 85
    ELSE 100

\* SpecificityFactor that rewards a match by 1.1 instead of penalising its absence
SpecificityFactor_reward(doc) ==
    IF Search(AmountOrHeadcountFrags, doc) THEN 110 ELSE 100

\* the factor of the specificity branch, in hundredths
SpecificityFactor(doc) ==
    IF ~Search(AmountOrHeadcountFrags, doc) THEN 90 ELSE 100

\* _apply_strict_adjustment that rounds after each multiplication
_apply_strict_adjustment_round_twice(score, doc, len) ==
    UNION { RoundTenth(s * SpecificityFactor(doc), 100) :
            s \in RoundTenth(score * LengthFactor(len), 100) }

\* the possible values of round(score, 1) after both multiplications
_apply_strict_adjustment(score, doc, len) ==
    RoundTenth(score * LengthFactor(len) * SpecificityFactor(doc), 100 * 100)

---------------------------------------------------------------------------
(* _determine_evaluation_level, _calculate_adoption_probability *)

\* _determine_evaluation_level with exclusive lower bounds (> for >=)
_determine_evaluation_level_exclusive(score) ==
    IF score > 800 THEN "excellent"
    ELSE IF score > 650 THEN "good"
    ELSE IF score > 500 THEN "fair"
    ELSE IF score > 350 THEN "insufficient"
    ELSE "disqualified"

_determine_evaluation_level(score) ==
    IF score >= 800 THEN "excellent"
    ELSE IF score >= 650 THEN "good"
    ELSE IF score >= 500 THEN "fair"
    ELSE IF score >= 350 THEN "insufficient"
    ELSE "disqualified"

\* _calculate_adoption_probability without the min(95, ...) cap
_calculate_adoption_probability_nocap(score, bonus_points) ==
    LET base_probability ==
            IF score >= 800 THEN 85
            ELSE IF score >= 700 THEN 70
            ELSE IF score >= 600 THEN 50
            ELSE IF score >= 500 THEN 30
            ELSE 10
    IN  base_probability + bonus_points * 2

_calculate_adoption_probability(score, bonus_points) ==
    LET base_probability ==
            IF score >= 800 THEN 85
            ELSE IF score >= 700 THEN 70
            ELSE IF score >= 600 THEN 50
            ELSE IF score >= 500 THEN 30
            ELSE 10
        bonus_adjustment == bonus_points * 2
    IN  Min(95, base_probability + bonus_adjustment)

---------------------------------------------------------------------------
(* _generate_improvements *)

\* improvement_templates in criterion order: low_threshold and the items
improvement_templates ==
    << [low_threshold |-> 18,
        improvements |-> << "company_overview_detail",     \* 企業概要の詳細化
                            "sales_financial_analysis",    \* 売上・財務分析の強化
                            "strengths_weaknesses" >>],    \* 強み・弱みの明確化
       [low_threshold |-> 18,
        improvements |-> << "numeric_targets",             \* 数値目標の具体化
                            "market_customer_analysis" >>],\* 市場・顧客分析の深化
       [low_threshold |-> 22,
        improvements |-> << "business_plan_detail",        \* 事業計画の具体化
                            "sales_channel_effect",        \* 販路開拓効果の明確化
                            "digital_utilization" >>],     \* デジタル活用の強化
       [low_threshold |-> 15,
        improvements |-> << "expense_detail",              \* 経費明細の詳細化
                            "necessity_grounds" >>] >>     \* 必要性の根拠強化

\* CriterionImprovements whose priority compares the score with the
\* threshold itself instead of 0.7 times the threshold
CriterionImprovements_no_factor(c, score) ==
    LET template == improvement_templates[c]
    IN  IF score < 10 * template.low_threshold
        THEN [i \in DOMAIN template.improvements |->
                 [item |-> template.improvements[i],
                  priority |-> IF score < 10 * template.low_threshold
                               THEN "important" ELSE "recommended"]]
        ELSE <<>>

\* CriterionImprovements that marks a score below 0.7 times the threshold as
\* urgent
CriterionImprovements_urgent(c, score) ==
    LET template == improvement_templates[c]
    IN  IF score < 10 * template.low_threshold
        THEN [i \in DOMAIN template.improvements |->
                 [item |-> template.improvements[i],
                  priority |-> IF score < 7 * template.low_threshold
                               THEN "urgent" ELSE "recommended"]]
        ELSE <<>>

\* the improvements of one criterion; score in tenths, so
\* score < low_threshold * 0.7  <=>  score < 7 * low_threshold
CriterionImprovements(c, score) ==
    LET template == improvement_templates[c]
    IN  IF score < 10 * template.low_threshold
        THEN [i \in DOMAIN template.improvements |->
                 [item |-> template.improvements[i],
                  priority |-> IF score < 7 * template.low_threshold
                               THEN "important" ELSE "recommended"]]
        ELSE <<>>

\* _generate_improvements that asks for fuller content up to and including
\* 1000 characters
_generate_improvements_length_inclusive(detailed_scores, doc, len) ==
    LET RECURSIVE PerCriterion(_)
        PerCriterion(c) ==
            IF c > Len(detailed_scores) THEN <<>>
            ELSE CriterionImprovements(c, detailed_scores[c].score) \o PerCriterion(c + 1)
    IN  PerCriterion(1)
        \o (IF ~Search(AmountFrags, doc)
            THEN <<[item |-> "numeric_data", priority |-> "important"]>>
            ELSE <<>>)
        \o (IF LoweredLength(doc, len) <= 1000
            THEN <<[item |-> "fuller_content", priority |-> "recommended"]>>
            ELSE <<>>)

_generate_improvements(detailed_scores, doc, len) ==
    LET RECURSIVE PerCriterion(_)
        PerCriterion(c) ==
            IF c > Len(detailed_scores) THEN <<>>
            ELSE CriterionImprovements(c, detailed_scores[c].score) \o PerCriterion(c + 1)
    IN  PerCriterion(1)
        \o (IF ~Search(AmountFrags, doc)
            THEN <<[item |-> "numeric_data", priority |-> "important"]>>   \* 数値データの充実
            ELSE <<>>)
        \o (IF LoweredLength(doc, len) < 1000
            THEN <<[item |-> "fuller_content", priority |-> "recommended"]>>  \* 記載内容の充実
            ELSE <<>>)

---------------------------------------------------------------------------
(* score_application *)

\* the total without the min(100, ...) cap
CappedTotal_nocap(base_score, bonus_points) ==
    base_score + 10 * bonus_points

\* total_score = min(100, base_score + bonus_points), in tenths
CappedTotal(base_score, bonus_points) ==
    Min(1000, base_score + 10 * bonus_points)

\* the possible return values for a document whose text_content is a string
score_application(doc, len, strict) ==
    LET basic_check == _check_basic_requirements(doc)
    IN  IF ~basic_check.passed
        THEN { [total_score |-> 0,
                evaluation_level |-> "disqualified",
                adoption_probability |-> 0,
                basic_requirements_passed |-> FALSE,
                detailed_scores |-> <<>>,
                improvements |-> basic_check.improvements,
                bonus_points |-> 0,
                error |-> "basic_requirements"] }
        ELSE LET bonus_analysis == _analyze_bonus_points(doc)
                 bonus_points == bonus_analysis.total_points
             IN  UNION {
                   LET base_score == SeqSum([c \in DOMAIN detailed_scores |->
                                                detailed_scores[c].score])
                       capped == CappedTotal(base_score, bonus_points)
                       totals == IF strict
                                 THEN _apply_strict_adjustment(capped, doc, len)
                                 ELSE {capped}
                   IN  { [total_score |-> total_score,
                          evaluation_level |-> _determine_evaluation_level(total_score),
                          adoption_probability |->
                              _calculate_adoption_probability(total_score, bonus_points),
                          basic_requirements_passed |-> TRUE,
                          detailed_scores |-> detailed_scores,
                          improvements |-> _generate_improvements(detailed_scores, doc, len),
                          bonus_points |-> bonus_points,
                          bonus_analysis |-> bonus_analysis] : total_score \in totals }
                   : detailed_scores \in _score_detailed_criteria(doc, len, strict) }

---------------------------------------------------------------------------
(* The state machine *)

NoResult == [none |-> TRUE]

\* document_analysis before analyze_pdf has returned
NoAnalysis == [none |-> TRUE]

\* len(text_content) of the fragments of doc joined by one separator each:
\* the number of character positions, one separator after every fragment
\* but the last
JoinedLength(doc) ==
    IF doc = {} THEN 0
    ELSE Cardinality(UNION {{i} \X (0..Len(Vocab[i])) : i \in doc}) - 1

SampleDocs == {BlankDoc, BonusDoc, OneEachDoc, TwoEachDoc, FullDoc}

\* the lengths a document is padded to
PaddedLengths == {500, 999, 1000, 1200}

Init ==
    /\ text \in SampleDocs
    /\ text_length = JoinedLength(text)
    /\ added = 0
    /\ strict_mode = TRUE
    /\ pc = "writing"
    /\ result = NoResult
    /\ calls = 0
    /\ input_kind = "str"
    /\ document_analysis = NoAnalysis

\* the applicant writes one more fragment into the document
WriteFragment(i) ==
    /\ pc = "writing"
    /\ added < MaxAdded
    /\ i \notin text
    /\ text' = text \cup {i}
    /\ text_length' = text_length + Len(Vocab[i]) + 1
    /\ added' = added + 1
    /\ UNCHANGED <<strict_mode, pc, result, calls, input_kind, document_analysis>>

\* the document is finished as it stands
Finish ==
    /\ pc = "writing"
    /\ pc' = "ready"
    /\ UNCHANGED <<text, text_length, added, strict_mode, result, calls, input_kind, document_analysis>>

\* the document is finished after padding it to n characters
FinishPadded(n) ==
    /\ pc = "writing"
    /\ n > text_length
    /\ text_length' = n
    /\ pc' = "ready"
    /\ UNCHANGED <<text, added, strict_mode, result, calls, input_kind, document_analysis>>

\* score_application(document_analysis, strict_mode)
ScoreApplication(strict) ==
    /\ pc = "ready"
    /\ strict_mode' = strict
    /\ result' \in score_application(text, text_length, strict)
    /\ pc' = "scored"
    /\ calls' = calls + 1
    /\ UNCHANGED <<text, text_length, added, input_kind, document_analysis>>

Next ==
    \/ \E i \in WritableFrags : WriteFragment(i)
    \/ Finish
    \/ \E n \in PaddedLengths : FinishPadded(n)
    \/ \E strict \in BOOLEAN : ScoreApplication(strict)

Spec == Init /\ [][Next]_vars

---------------------------------------------------------------------------
(* _apply_strict_adjustment called on every score from 0.0 upwards *)

InitAdjust ==
    /\ text \in SampleDocs
    /\ text_length \in {JoinedLength(text)}
                       \cup {n \in PaddedLengths \cup {300} : n > JoinedLength(text)}
    /\ added = 0
    /\ strict_mode = TRUE
    /\ pc = "adjust_in"
    /\ result \in {[score |-> s] : s \in 0..MaxScoreIn}
    /\ calls = 0
    /\ input_kind = "str"
    /\ document_analysis = NoAnalysis

ApplyStrictAdjustment ==
    /\ pc = "adjust_in"
    /\ \E a \in _apply_strict_adjustment(result.score, text, text_length) :
           result' = [score |-> result.score, adjusted |-> a]
    /\ pc' = "adjust_out"
    /\ UNCHANGED <<text, text_length, added, strict_mode, calls, input_kind, document_analysis>>

NextAdjust == ApplyStrictAdjustment

SpecAdjust == InitAdjust /\ [][NextAdjust]_vars


---------------------------------------------------------------------------
(* score_application on documents whose text_content is not a string *)

\* the result of the except branch of score_application; the message
\* f"採点処理でエラーが発生しました: {str(e)}" is kept as the exception's name
ErrorResult(e) ==
    [error |-> e,
     total_score |-> 0,
     evaluation_level |-> "error",
     adoption_probability |-> 0]

\* an except branch that lets the exception out of score_application
except_handler_reraise(e) == [raised |-> e]

\* except Exception as e: return {...}
except_handler(e) == ErrorResult(e)

\* `keyword in text_content` for a text_content that is a list of strings,
\* the fragments of doc: the keyword has to be an element of the list
FoundInList(doc) == {Vocab[i] : i \in doc} \cap Keywords

\* the exception the body of the try block raises, "none" if it returns:
\*  - None, int: `keyword in text_content` raises TypeError in the gate;
\*  - list: the gate works by membership; when it passes,
\*    text_content.lower() raises AttributeError in _score_detailed_criteria.
Raised(kind, doc) ==
    CASE kind \in {"NoneType", "int"} -> "TypeError"
      [] kind = "list" ->
            IF check_required_items(FoundInList(doc)).passed THEN "AttributeError" ELSE "none"
      [] OTHER -> "none"

\* score_application for a text_content of the given kind
score_application_typed(kind, doc, len, strict) ==
    LET e == Raised(kind, doc)
    IN  IF e # "none" THEN {except_handler(e)}
        ELSE IF kind = "list"
        THEN { [total_score |-> 0,
                evaluation_level |-> "disqualified",
                adoption_probability |-> 0,
                basic_requirements_passed |-> FALSE,
                detailed_scores |-> <<>>,
                improvements |-> check_required_items(FoundInList(doc)).improvements,
                bonus_points |-> 0,
                error |-> "basic_requirements"] }
        ELSE score_application(doc, len, strict)

---------------------------------------------------------------------------
(* Several calls on one engine instance *)

\* calls made on one engine instance
MaxCalls == 2

\* the list a call collects its improvements in, started from the list the
\* previous call returned
improvements_start_kept(previous) ==
    IF "improvements" \in DOMAIN previous THEN previous.improvements ELSE <<>>

\* the list a call collects its improvements in: `improvements = []` makes
\* a new list in every call, whatever the previous call returned
improvements_start(previous) == <<>>

\* score_application on an engine whose previous call returned `previous`.
\* self.scoring_criteria and self.bonus_criteria are only read, and
\* improvement_templates is built anew in every call.
score_application_on(previous, kind, doc, len, strict) ==
    { IF "improvements" \in DOMAIN r
      THEN [r EXCEPT !.improvements = improvements_start(previous) \o @]
      ELSE r :
      r \in score_application_typed(kind, doc, len, strict) }

SessionDocs == SampleDocs \cup {GateDoc}

\* the documents handed to the engine: strings of every sample document at
\* its own and at the padded lengths, lists of strings, None and a number
SessionInputs ==
    UNION {{<<"str", d, n>> : n \in {m \in PaddedLengths \cup {0} :
                                        m = 0 \/ m > JoinedLength(d)}} :
           d \in SessionDocs}
    \cup {<<"list", d, 0>> : d \in SessionDocs}
    \cup {<<"NoneType", {}, 0>>, <<"int", {}, 0>>}

InitSession ==
    /\ text = {}
    /\ text_length = 0
    /\ added = 0
    /\ strict_mode = TRUE
    /\ pc = "idle"
    /\ result = NoResult
    /\ calls = 0
    /\ input_kind = "str"
    /\ document_analysis = NoAnalysis

\* one more call of score_application on the same engine instance
CallScoreApplication(in, strict) ==
    /\ pc \in {"idle", "scored"}
    /\ calls < MaxCalls
    /\ input_kind' = in[1]
    /\ text' = in[2]
    /\ text_length' = (IF in[1] = "str" /\ in[3] = 0 THEN JoinedLength(in[2]) ELSE in[3])
    /\ strict_mode' = strict
    /\ result' \in score_application_on(result, in[1], in[2], text_length', strict)
    /\ calls' = calls + 1
    /\ pc' = "scored"
    /\ UNCHANGED <<added, document_analysis>>

NextSession == \E in \in SessionInputs, strict \in BOOLEAN : CallScoreApplication(in, strict)

SpecSession == InitSession /\ [][NextSession]_vars
---------------------------------------------------------------------------
(* The analyzer and the application pipeline *)

\* required_sections of _calculate_completeness
required_sections ==
    << <<<<20225, 26989, 27010, 35201>>, <<20107, 26989, 20869, 23481>>, <<20250, 31038>>>>,   \* 企業概要, 事業内容, 会社
       <<<<22770, 19978>>, <<36001, 21209>>, <<26989, 32318>>>>,   \* 売上, 財務, 業績
       <<<<24375, 12415>>, <<24369, 12415>>, <<29305, 24500>>>>,   \* 強み, 弱み, 特徴
       <<<<24066, 22580>>, <<31478, 21512>>, <<39015, 23458>>>>,   \* 市場, 競合, 顧客
       <<<<30446, 27161>>, <<35336, 30011>>, <<26041, 37341>>>>,   \* 目標, 計画, 方針
       <<<<35036, 21161, 20107, 26989>>, <<36009, 36335>>, <<38283, 25299>>>> >>   \* 補助事業, 販路, 開拓

\* the literal concrete_patterns of _assess_content_quality: 具体的に, 詳細
analyzer_concrete_literals == <<<<20855, 20307, 30340, 12395>>, <<35443, 32048>>>>

\* the fragments whose lower-cased text holds a keyword of section s
SectionFrags ==
    [s \in DOMAIN required_sections |->
        {i \in Frags : \E k \in Range(required_sections[s]) :
                           IsSubstring(k, Lower(Vocab[i]))}]

\* round(x, 2) of x = num/den, in hundredths. A sixth is never half-way
\* between two hundredths, so the nearest hundredth is unique.
RoundHundredth(num, den) == (200 * num + den) \div (2 * den)

\* a completeness that adds 0.17 for every completed section
_calculate_completeness_by_step(doc) ==
    Cardinality({s \in DOMAIN required_sections : SectionFrags[s] \cap doc # {}}) * 17

\* _calculate_completeness(text), in hundredths
_calculate_completeness(doc) ==
    LET completed_sections ==
            Cardinality({s \in DOMAIN required_sections : SectionFrags[s] \cap doc # {}})
    IN  RoundHundredth(completed_sections, Len(required_sections))

\* len(re.findall(r'\d+', s))
DigitRuns(s) ==
    Cardinality({i \in DOMAIN s : IsDigit(s[i]) /\ ~IsDigit(At(s, i - 1))})

\* len(re.findall(k, s)) for a literal k that cannot overlap itself
CountLiteral(k, s) ==
    Cardinality({i \in 1..(Len(s) - Len(k) + 1) : SubSeq(s, i, i + Len(k) - 1) = k})

\* len(re.findall(r'\d+[cls]u', s))
CountDigitsClassUnit(s, cls, u) ==
    Cardinality({i \in DOMAIN s : IsDigit(At(s, i - 1)) /\ s[i] \in cls /\ At(s, i + 1) = u})

\* len(re.findall(r'\d+u', s))
CountDigitsUnit(s, u) ==
    Cardinality({i \in DOMAIN s : IsDigit(At(s, i - 1)) /\ s[i] = u})

\* len(re.findall(r'\d+年\d+月', s)): every match ends at a 月 of its own
CountDigitsYearMonth(s) ==
    Cardinality({j \in DOMAIN s :
        /\ s[j] = ch_gatsu
        /\ \E i \in 1..(j - 2) :
              /\ s[i] = ch_nen /\ IsDigit(At(s, i - 1))
              /\ \A k \in (i + 1)..(j - 1) : IsDigit(s[k])})

\* numerical_data_count of one fragment
NumericalCount == [i \in Frags |-> DigitRuns(Vocab[i])]

\* concrete_expressions of one fragment: the five concrete_patterns in turn
ConcreteCount ==
    [i \in Frags |->
        CountLiteral(analyzer_concrete_literals[1], Vocab[i])
        + CountLiteral(analyzer_concrete_literals[2], Vocab[i])
        + CountDigitsYearMonth(Vocab[i])
        + CountDigitsClassUnit(Vocab[i], {ch_man, ch_oku, ch_sen}, ch_en)
        + CountDigitsUnit(Vocab[i], ch_nin)]

\* the sum of count[i] over the fragments of doc: no pattern matches across
\* the separator of two fragments
CountOver(count, doc) == Cardinality(UNION {{i} \X (1..count[i]) : i \in doc})

\* the denominator quality_score is counted in:
\* (len/2000 + n/20 + c/10) / 3 = (len + 100 n + 200 c) / 6000
QualityDen == 6000

\* _assess_content_quality(text); quality_score in QualityDen-ths.
\* _clean_text has collapsed every run of newlines, so text.split('\n\n')
\* has one element.
_assess_content_quality(doc, len) ==
    LET numerical_data_count == CountOver(NumericalCount, doc)
        concrete_expressions == CountOver(ConcreteCount, doc)
        length_score == Min(2000, len)
        numerical_score == 100 * Min(20, numerical_data_count)
        concrete_score == 200 * Min(10, concrete_expressions)
    IN  [text_length |-> len,
         paragraph_count |-> 1,
         numerical_data_count |-> numerical_data_count,
         concrete_expressions |-> concrete_expressions,
         quality_score |-> length_score + numerical_score + concrete_score]

\* analysis_patterns['subsidy_plan']['keywords']
subsidy_keywords ==
    << <<35036, 21161, 20107, 26989>>,   \* 補助事業
       <<36009, 36335, 38283, 25299>>,   \* 販路開拓
       <<26989, 21209, 21177, 29575>>,   \* 業務効率
       <<12507, 12540, 12512, 12506, 12540, 12472>>,   \* ホームページ
       <<12481, 12521, 12471>>,   \* チラシ
       <<30475, 26495>>,   \* 看板
       <<35373, 20633>>,   \* 設備
       <<27231, 26800>>,   \* 機械
       <<12471, 12473, 12486, 12512>>,   \* システム
       <<24195, 21578>>,   \* 広告
       <<80, 82>> >>   \* PR

\* sales_keywords of _analyze_subsidy_plan
sales_keywords ==
    << <<36009, 36335>>,   \* 販路
       <<26032, 35215>>,   \* 新規
       <<38283, 25299>>,   \* 開拓
       <<39015, 23458, 29554, 24471>>,   \* 顧客獲得
       <<21942, 26989>> >>   \* 営業

\* efficiency_keywords of _analyze_subsidy_plan
efficiency_keywords ==
    << <<21177, 29575>>,   \* 効率
       <<30465, 21147>>,   \* 省力
       <<33258, 21205>>,   \* 自動
       <<26178, 30701>>,   \* 時短
       <<21512, 29702, 21270>> >>   \* 合理化

\* digital_keywords of _analyze_subsidy_plan
digital_keywords ==
    << <<12487, 12472, 12479, 12523>>,   \* デジタル
       <<105, 116>>,   \* it
       <<12507, 12540, 12512, 12506, 12540, 12472>>,   \* ホームページ
       <<115, 110, 115>>,   \* sns
       <<12471, 12473, 12486, 12512>>,   \* システム
       <<100, 120>> >>   \* dx

\* the fragments whose lower-cased text holds the string k:
\* `keyword in text_lower`, the keyword taken as it is written in its list
LowerTextFrags(k) == {i \in Frags : IsSubstring(k, Lower(Vocab[i]))}

\* every keyword the subsidy-plan analysis looks for
SubsidyPlanKeywords ==
    Range(subsidy_keywords) \cup Range(sales_keywords)
    \cup Range(efficiency_keywords) \cup Range(digital_keywords)

\* for every keyword of the subsidy-plan analysis, the fragments that hold it
SubsidyPlanFrags == [k \in SubsidyPlanKeywords |-> LowerTextFrags(k)]

\* _analyze_subsidy_plan(text): the keyword list and the three flags; every
\* test is `kw in text_lower` (expected_effects, a regex on numbers, is left out)
_analyze_subsidy_plan(doc) ==
    LET in_text_lower(k) == SubsidyPlanFrags[k] \cap doc # {}
    IN  [subsidy_items |-> SelectSeq(subsidy_keywords, in_text_lower),
         sales_development |->
             \E i \in DOMAIN sales_keywords : in_text_lower(sales_keywords[i]),
         efficiency_improvement |->
             \E i \in DOMAIN efficiency_keywords : in_text_lower(efficiency_keywords[i]),
         digital_utilization |->
             \E i \in DOMAIN digital_keywords : in_text_lower(digital_keywords[i])]

\* the empty string as a text_content: no fragment, no character
EmptyText == <<{}, 0>>

\* a failure record that carries the derived scores of the empty text
failure_record_zeroed(e) ==
    [success |-> FALSE, error |-> e, text_content |-> EmptyText,
     content_quality |-> _assess_content_quality({}, 0),
     completeness_score |-> _calculate_completeness({})]

\* the record analyze_pdf returns when no text was extracted (lines 89-93)
\* and from its except branch (lines 115-119)
failure_record(e) == [success |-> FALSE, error |-> e, text_content |-> EmptyText]

\* analyze_pdf(uploaded_file): a file PyPDF2 cannot read makes
\* _extract_text_from_pdf raise; a readable file holds the text doc of len
\* characters. Of the keys of the success record the ones computed from
\* the tables above are kept.
analyze_pdf(kind, doc, len) ==
    IF kind = "broken_pdf" THEN failure_record("exception")
    ELSE IF len = 0 THEN failure_record("no_text")
    ELSE [success |-> TRUE,
          text_content |-> <<doc, len>>,
          extracted_length |-> len,
          subsidy_plan |-> _analyze_subsidy_plan(doc),
          content_quality |-> _assess_content_quality(doc, len),
          completeness_score |-> _calculate_completeness(doc)]

\* a gate that lets every analysis through to the engine
analysis_succeeded_any(da) == TRUE

\* `document_analysis and document_analysis.get('success')`
analysis_succeeded(da) == "success" \in DOMAIN da /\ da.success

\* one fragment of each required section: 事業内容, 売上, 強み, 市場, 方針, 補助事業
SectionSample == {2, 6, 14, 20, 26, 91}

\* the two Latin-letter fragments PR and IT, as the rubric tables write them
CaseSample == {56, 64}

\* the texts of the uploaded files
AppDocs ==
    SampleDocs \cup SUBSET SectionSample \cup {GateDoc \cup d : d \in SUBSET CaseSample}

\* the uploads: a readable or an unreadable file, its text and its length
InitApp ==
    /\ input_kind \in {"pdf", "broken_pdf"}
    /\ text \in AppDocs
    /\ text_length \in {JoinedLength(text)}
                       \cup {n \in PaddedLengths : text # {} /\ n > JoinedLength(text)}
    /\ added = 0
    /\ strict_mode \in BOOLEAN
    /\ pc = "uploaded"
    /\ result = NoResult
    /\ calls = 0
    /\ document_analysis = NoAnalysis

\* document_analysis = self.analyzer.analyze_pdf(uploaded_file)
AnalyzePdf ==
    /\ pc = "uploaded"
    /\ document_analysis' = analyze_pdf(input_kind, text, text_length)
    /\ pc' = "analyzed"
    /\ UNCHANGED <<text, text_length, added, strict_mode, result, calls, input_kind>>

\* the branch of run() that scores the analysed document
ScoreAnalyzed ==
    /\ pc = "analyzed"
    /\ analysis_succeeded(document_analysis)
    /\ result' \in score_application(document_analysis.text_content[1],
                                     document_analysis.text_content[2], strict_mode)
    /\ calls' = calls + 1
    /\ pc' = "scored"
    /\ UNCHANGED <<text, text_length, added, strict_mode, input_kind, document_analysis>>

\* the else branch of run(): st.error, no scoring
ShowAnalysisError ==
    /\ pc = "analyzed"
    /\ ~analysis_succeeded(document_analysis)
    /\ pc' = "failed"
    /\ UNCHANGED <<text, text_length, added, strict_mode, result, calls, input_kind, document_analysis>>

NextApp == AnalyzePdf \/ ScoreAnalyzed \/ ShowAnalysisError

SpecApp == InitApp /\ [][NextApp]_vars
---------------------------------------------------------------------------
(* The amount patterns of the analyzer, on one mention of an amount *)

\* the longest numeral of a mention
MaxNumeralLen == 5

ch_comma == 44      \* ,

kw_sales == <<22770, 19978>>    \* 売上
kw_profit == <<21033, 30410>>   \* 利益

\* (万円|千円|億円)
amount_units == << <<19975, 20870>>, <<21315, 20870>>, <<20740, 20870>> >>

\* the least element of a non-empty set of positions, 0 for the empty set
FirstOf(S) == IF S = {} THEN 0 ELSE CHOOSE i \in S : \A j \in S : i <= j

\* the number of digits of s from position j on
DigitRunLen(s, j) ==
    LET RECURSIVE Go(_)
        Go(k) == IF IsDigit(At(s, k)) THEN 1 + Go(k + 1) ELSE 0
    IN  Go(j)

\* (?:,\d{3})* after position e: the last position of the groups it takes
CommaGroupsEnd(s, e) ==
    LET RECURSIVE Go(_)
        Go(k) == IF /\ At(s, k + 1) = ch_comma
                    /\ \A d \in 2..4 : IsDigit(At(s, k + d))
                 THEN Go(k + 4) ELSE k
    IN  Go(e)

\* (\d{1,3}(?:,\d{3})*|\d+) at position j of s, a digit: the last position
\* of the group. The first alternative matches wherever the second does,
\* takes at most three digits and then its comma groups; nothing after the
\* group can fail because of the characters it left, so the second
\* alternative is never tried.
numeral_end(s, j) == CommaGroupsEnd(s, j + Min(3, DigitRunLen(s, j)) - 1)

\* str.replace(',', '')
RemoveCommas(s) == SelectSeq(s, LAMBDA c : c # ch_comma)

\* re.findall(r'kw.*?(\d{1,3}(?:,\d{3})*|\d+).*?(万円|千円|億円)', s) on a
\* text without a newline: the leftmost kw, the first digit behind it, the
\* group, the first unit behind the group; then on from the end of the match
findall_amounts(kw, s) ==
    LET RECURSIVE Go(_)
        Go(from) ==
            LET i == FirstOf({p \in from..(Len(s) - Len(kw) + 1) :
                                 SubSeq(s, p, p + Len(kw) - 1) = kw})
                j == IF i = 0 THEN 0
                     ELSE FirstOf({p \in (i + Len(kw))..Len(s) : IsDigit(s[p])})
                e == IF j = 0 THEN 0 ELSE numeral_end(s, j)
                u == IF j = 0 THEN 0
                     ELSE FirstOf({p \in (e + 1)..(Len(s) - 1) :
                                      SubSeq(s, p, p + 1) \in Range(amount_units)})
            IN  IF u = 0 THEN <<>>
                ELSE << [amount |-> RemoveCommas(SubSeq(s, j, e)),
                         unit |-> SubSeq(s, u, u + 1)] >> \o Go(u + 2)
    IN  Go(1)

\* company_info['sales'] for a text without a year: the second of sales_patterns
extract_sales(s) == findall_amounts(kw_sales, s)

\* financial_data['profit_data']
extract_profit_data(s) == findall_amounts(kw_profit, s)

\* the characters numerals are written with: 1, 2, 3, 4 and the comma
NumeralChars == {49, 50, 51, 52, ch_comma}

\* the numerals of the mentions, well-formed or not
Numerals == UNION {[1..n -> NumeralChars] : n \in 1..MaxNumeralLen}

\* a mention: keyword, numeral, unit written one after the other
MentionText(mention) == mention.keyword \o mention.numeral \o mention.unit

InitAmount ==
    /\ text = {}
    /\ text_length = 0
    /\ added = 0
    /\ strict_mode = TRUE
    /\ pc = "amount_in"
    /\ result \in {[mention |-> [keyword |-> k, numeral |-> n, unit |-> u]] :
                      k \in {kw_sales, kw_profit}, n \in Numerals,
                      u \in Range(amount_units)}
    /\ calls = 0
    /\ input_kind = "str"
    /\ document_analysis = NoAnalysis

\* _extract_company_info and _extract_financial_data on the mention
ExtractAmounts ==
    /\ pc = "amount_in"
    /\ result' = [mention |-> result.mention,
                  sales |-> extract_sales(MentionText(result.mention)),
                  profit_data |-> extract_profit_data(MentionText(result.mention))]
    /\ pc' = "amount_out"
    /\ UNCHANGED <<text, text_length, added, strict_mode, calls, input_kind, document_analysis>>

NextAmount == ExtractAmounts

SpecAmount == InitAmount /\ [][NextAmount]_vars
---------------------------------------------------------------------------
(* Two versions of one application scored with the same strict flag *)

\* the first versions: the sample documents, and one with İstanbul whose
\* only number is 100円, which the quality pattern matches and none of the
\* five shapes does
CompareDocs == SampleDocs \cup {GateDoc \cup {128, 134}}

\* what a revision adds to the text: a rubric keyword (創業), a bonus
\* keyword (赤字), a concrete expression (明確), a number the quality pattern
\* alone matches (2024年) and an amount (3億円)
RevisionFrags == {3, 92, 118, 123, 125}

\* what a revision removes: 売上 (still read in 売上高 where that stands),
\* 500万円, 100円 and İstanbul
RemovedFrags == {6, 124, 128, 134}

\* what the scorers read in a text: the keywords of the rubric, bonus and
\* gate tables and the concrete expressions it contains, the numeric shapes
\* with a match, and whether the numeric pattern of the quality score matches
ContentOf(doc) ==
    [keywords |-> FoundRaw(doc),
     shapes |-> {p \in 1..5 : Search(<<DateFrags, AmountFrags, HeadcountFrags,
                                       PercentFrags, CountFrags>>[p], doc)},
     numbers |-> Search(QualityNumericFrags, doc)]

\* doc contains everything of content
Contains(doc, content) ==
    /\ content.keywords \subseteq ContentOf(doc).keywords
    /\ content.shapes \subseteq ContentOf(doc).shapes
    /\ content.numbers => ContentOf(doc).numbers

InitCompare ==
    /\ text \in CompareDocs
    /\ text_length \in {JoinedLength(text), 500}
    /\ added = 0
    /\ strict_mode \in BOOLEAN
    /\ pc = "first_ready"
    /\ result = NoResult
    /\ calls = 0
    /\ input_kind = "str"
    /\ document_analysis = NoAnalysis

\* score_application on the first version, which is kept as document_analysis
ScoreFirst ==
    /\ pc = "first_ready"
    /\ \E r \in score_application(text, text_length, strict_mode) :
           result' = [first |-> r]
    /\ document_analysis' = [text_content |-> <<text, text_length>>]
    /\ calls' = calls + 1
    /\ pc' = "first_scored"
    /\ UNCHANGED <<text, text_length, added, strict_mode, input_kind>>

\* the applicant removes and writes fragments, keeping everything the
\* scorers read in the first version and its length
Revise(removed, extra, n) ==
    /\ pc = "first_scored"
    /\ Contains((text \ removed) \cup extra, ContentOf(text))
    /\ n >= text_length
    /\ n >= JoinedLength((text \ removed) \cup extra)
    /\ text' = (text \ removed) \cup extra
    /\ text_length' = n
    /\ added' = Cardinality(extra \ text)
    /\ pc' = "second_ready"
    /\ UNCHANGED <<strict_mode, result, calls, input_kind, document_analysis>>

\* score_application on the second version, with the same strict flag
ScoreSecond ==
    /\ pc = "second_ready"
    /\ \E r \in score_application(text, text_length, strict_mode) :
           result' = [first |-> result.first, second |-> r]
    /\ calls' = calls + 1
    /\ pc' = "compared"
    /\ UNCHANGED <<text, text_length, added, strict_mode, input_kind, document_analysis>>

NextCompare ==
    \/ ScoreFirst
    \/ \E removed \in SUBSET (RemovedFrags \cap text), extra \in SUBSET RevisionFrags :
          \E n \in {text_length, JoinedLength((text \ removed) \cup extra), 999, 1200} :
              Revise(removed, extra, n)
    \/ ScoreSecond

SpecCompare == InitCompare /\ [][NextCompare]_vars
---------------------------------------------------------------------------
(* Properties *)

\* a call has returned
Scored == pc = "scored"

\* the returned result is that of a text that passed the gate
Passing ==
    /\ Scored
    /\ "basic_requirements_passed" \in DOMAIN result
    /\ result.basic_requirements_passed

\* k in text_content, on the text as written / on the lower-cased text
TextHas(k) == \E i \in text : <<i, k>> \in RawPairs
TextHasLower(k) == \E i \in text : <<i, k>> \in LowerPairs

\* the gate groups without a keyword in the text as written
MissingGroups ==
    LET held == FoundRaw(text)
    IN  {g \in DOMAIN required_items : Range(required_items[g]) \cap held = {}}

ScoreSum(ds) == SeqSum([c \in DOMAIN ds |-> ds[c].score])

\* C1: for every text that passes the gate and both values of strict_mode,
\* each of the four detailed_scores satisfies 0 <= score <= max_score, and
\* the max_score values are 25, 25, 30, 20 in criterion order.
C1_ScoreWithinMax ==
    Passing =>
        /\ DOMAIN result.detailed_scores = 1..4
        /\ \A c \in 1..4 :
               /\ result.detailed_scores[c].score >= 0
               /\ result.detailed_scores[c].score <= 10 * result.detailed_scores[c].max_score
        /\ [c \in 1..4 |-> result.detailed_scores[c].max_score] = <<25, 25, 30, 20>>

\* a strict and a lenient passing result exist, and the bound is met: a
\* criterion scored exactly its max
C1_Witness ==
    /\ Passing
    /\ ~strict_mode
    /\ result.detailed_scores[1].score = 250
    /\ result.detailed_scores[3].score < 300

\* C2: for every text that passes the gate, with strict_mode = false the
\* returned total_score is min(100, sum of the four criterion scores +
\* bonus_points), and in every mode total_score lies in [0, 100].
C2_TotalIsCappedSum ==
    Passing =>
        /\ ~strict_mode =>
               result.total_score =
                   Min(1000, ScoreSum(result.detailed_scores) + 10 * result.bonus_points)
        /\ result.total_score >= 0
        /\ result.total_score <= 1000

\* the cap is what decides the total: the sum with bonus exceeds 100
C2_Witness ==
    /\ Passing
    /\ ~strict_mode
    /\ ScoreSum(result.detailed_scores) + 10 * result.bonus_points > 1000
    /\ result.total_score = 1000

\* C3: for every score s in [0, 100] (a multiple of 0.1) and every text,
\* _apply_strict_adjustment returns a value that is never greater than s.
C3_AdjustmentNeverIncreases ==
    pc = "adjust_out" => result.adjusted <= result.score

\* a penalised non-zero score that the final rounding brings back up to s
C3_Witness ==
    /\ pc = "adjust_out"
    /\ result.score = 1
    /\ result.adjusted = 1
    /\ text_length < 500

\* C4: a result comes from a gate failure if and only if it has
\* total_score = 0, evaluation_level = 不適格, basic_requirements_passed =
\* false and empty detailed_scores, whatever strict_mode is.
C4_GateFailureShape ==
    Scored =>
        ( MissingGroups # {}
          <=> /\ result.total_score = 0
              /\ result.evaluation_level = "disqualified"
              /\ result.basic_requirements_passed = FALSE
              /\ result.detailed_scores = <<>> )

\* a lenient call on a text that misses some but not all gate groups
C4_Witness ==
    /\ Scored
    /\ ~strict_mode
    /\ MissingGroups # {}
    /\ MissingGroups # DOMAIN required_items
    /\ result.basic_requirements_passed = FALSE
    /\ result.detailed_scores = <<>>

\* C5: when the gate fails, improvements holds exactly one 緊急 entry for
\* each gate group with zero keyword hits, in group order, and nothing
\* else; a text with no keyword of any group yields 4 of them and
\* total_score = 0.
C5_UrgentPerMissingGroup ==
    (Scored /\ MissingGroups # {}) =>
        LET imps == result.improvements
        IN  /\ Len(imps) = Cardinality(MissingGroups)
            /\ \A j \in DOMAIN imps : imps[j].priority = "urgent"
            /\ {imps[j].item : j \in DOMAIN imps} = {gate_item[g] : g \in MissingGroups}
            /\ \A j \in DOMAIN imps : \A k \in DOMAIN imps :
                   j < k => \E g \in MissingGroups : \E h \in MissingGroups :
                                g < h /\ imps[j].item = gate_item[g]
                                       /\ imps[k].item = gate_item[h]
            /\ MissingGroups = DOMAIN required_items =>
                   Len(imps) = 4 /\ result.total_score = 0

\* the text holds no gate keyword and the result carries 4 urgent entries
C5_Witness ==
    /\ Scored
    /\ MissingGroups = DOMAIN required_items
    /\ Len(result.improvements) = 4
    /\ result.total_score = 0

\* every sub-criterion list has at least one keyword in the text
EveryListHasKeyword ==
    \A c \in DOMAIN scoring_criteria : \A s \in DOMAIN scoring_criteria[c].sub_criteria :
        \E k \in Range(scoring_criteria[c].sub_criteria[s].keywords) : TextHas(k)

\* every keyword of every sub-criterion list is in the text as written
EveryKeywordPresent ==
    \A c \in DOMAIN scoring_criteria : \A s \in DOMAIN scoring_criteria[c].sub_criteria :
        \A k \in Range(scoring_criteria[c].sub_criteria[s].keywords) : TextHas(k)

\* the text holds an amount (digits, 万/億/千, 円) or a headcount (digits, 万/千, 人)
HasAmountOrHeadcount == \E i \in text : re_amount(Vocab[i]) \/ re_headcount(Vocab[i])

\* the text holds all five numeric shapes: date, amount, headcount, percentage, count
HasAllFiveShapes ==
    /\ \E i \in text : re_date(Vocab[i])
    /\ \E i \in text : re_amount(Vocab[i])
    /\ \E i \in text : re_headcount(Vocab[i])
    /\ \E i \in text : re_percent(Vocab[i])
    /\ \E i \in text : re_count(Vocab[i])

BonusKeywords ==
    UNION ({Range(priority_bonus[b].keywords) : b \in DOMAIN priority_bonus}
           \cup {Range(policy_bonus[b].keywords) : b \in DOMAIN policy_bonus})

\* the bonus keywords the text holds
BonusKeywordsInText == BonusKeywords \cap FoundLower(text)

Eligible(entry, held) == Range(entry.keywords) \cap held # {}

EligiblePoints(table, held) ==
    SeqSum([b \in DOMAIN table |-> IF Eligible(table[b], held) THEN table[b].points ELSE 0])

kw_akaji == <<36196, 23383>>                   \* 赤字
kw_chiiki_shigen == <<22320, 22495, 36039, 28304>>  \* 地域資源

BonusItemsAgree(items, table, held) ==
    /\ DOMAIN items = DOMAIN table
    /\ \A b \in DOMAIN table :
           /\ items[b].eligible = Eligible(table[b], held)
           /\ items[b].points = (IF Eligible(table[b], held) THEN table[b].points ELSE 0)

\* C7: total_points is the sum of the points of all entries of both tables
\* that have a keyword in the text; bonuses stack; every eligible item
\* carries its table points and every other item 0.  A text whose only
\* bonus keywords are 赤字 and 地域資源 gets 8 with exactly those two
\* entries eligible.
C7_BonusIsSumOfEligible ==
    Passing =>
        LET ba == result.bonus_analysis
            held == BonusKeywordsInText
        IN  /\ ba.total_points = EligiblePoints(priority_bonus, held)
                                 + EligiblePoints(policy_bonus, held)
            /\ result.bonus_points = ba.total_points
            /\ BonusItemsAgree(ba.priority_bonuses, priority_bonus, held)
            /\ BonusItemsAgree(ba.policy_bonuses, policy_bonus, held)
            /\ held = {kw_akaji, kw_chiiki_shigen} =>
                   /\ ba.total_points = 8
                   /\ {b \in DOMAIN priority_bonus : ba.priority_bonuses[b].eligible} = {1}
                   /\ {b \in DOMAIN policy_bonus : ba.policy_bonuses[b].eligible} = {2}

\* the text of the scenario has been scored: 5 + 3 points
C7_Witness ==
    /\ Passing
    /\ BonusKeywordsInText = {kw_akaji, kw_chiiki_shigen}
    /\ result.bonus_analysis.total_points = 8

\* C8: the strict adjustment multiplies by exactly one length factor (0.7
\* below 500 characters, 0.85 from 500 to 999, 1 from 1000), then by 0.9
\* exactly when the text has no amount or headcount pattern, and rounds to
\* one decimal once, after both multiplications: the result is a tenth
\* nearest to s * length factor * specificity factor.
C8_StrictFactorsRoundedOnce ==
    pc = "adjust_out" =>
        LET L == IF text_length < 500 THEN 70
                 ELSE IF text_length < 1000 THEN 85 ELSE 100
            S == IF HasAmountOrHeadcount THEN 100 ELSE 90
            exact == result.score * L * S
            diff == 10000 * result.adjusted - exact
        IN  /\ 2 * diff <= 10000
            /\ 2 * diff >= -10000

\* a 300-character text without the pattern: 100.0 * 0.7 * 0.9 = 63.0
C8_Witness ==
    /\ pc = "adjust_out"
    /\ text_length = 300
    /\ ~HasAmountOrHeadcount
    /\ result.score = 1000
    /\ result.adjusted = 630

\* C9: for every passing result, evaluation_level follows the final
\* total_score by the bands [80,100] 優秀, [65,80) 良好, [50,65) 普通,
\* [35,50) 不十分, [0,35) 不適格, each lower bound inclusive.
C9_LevelBands ==
    Passing =>
        LET t == result.total_score
        IN  result.evaluation_level =
                CASE t >= 800 /\ t <= 1000 -> "excellent"
                  [] t >= 650 /\ t < 800 -> "good"
                  [] t >= 500 /\ t < 650 -> "fair"
                  [] t >= 350 /\ t < 500 -> "insufficient"
                  [] t >= 0 /\ t < 350 -> "disqualified"

\* a strictly adjusted total that sits exactly on a lower bound
C9_Witness ==
    /\ Passing
    /\ strict_mode
    /\ result.total_score = 650
    /\ result.evaluation_level = "good"

\* the base value of the adoption-probability ladder
LadderBase(t) ==
    IF t >= 800 THEN 85
    ELSE IF t >= 700 THEN 70
    ELSE IF t >= 600 THEN 50
    ELSE IF t >= 500 THEN 30
    ELSE 10

\* C10: for every passing result, adoption_probability = min(95, base + 2 *
\* bonus_points), base taken from the final total_score; it lies in
\* [10, 95], and it is 0 for a gate failure.
C10_AdoptionProbability ==
    Scored =>
        IF Passing
        THEN /\ result.adoption_probability =
                    Min(95, LadderBase(result.total_score) + 2 * result.bonus_points)
             /\ result.adoption_probability >= 10
             /\ result.adoption_probability <= 95
        ELSE result.adoption_probability = 0

\* the cap decides: base + 2 * bonus_points exceeds 95
C10_Witness ==
    /\ Passing
    /\ LadderBase(result.total_score) + 2 * result.bonus_points > 95
    /\ result.adoption_probability = 95


---------------------------------------------------------------------------
(* Claims C11 - C12, checked under SpecSession *)

C12_ExceptionBecomesErrorResult ==
    pc = "scored" =>
        /\ "raised" \notin DOMAIN result
        /\ {"total_score", "evaluation_level", "adoption_probability"} \subseteq DOMAIN result
        /\ (\/ input_kind \in {"NoneType", "int"}
            \/ (input_kind = "list"
                /\ \A g \in DOMAIN required_items :
                      \E k \in Range(required_items[g]) : \E i \in text : Vocab[i] = k))
            => /\ DOMAIN result = {"error", "total_score", "evaluation_level",
                                   "adoption_probability"}
               /\ result.error \in {"TypeError", "AttributeError"}
               /\ result.total_score = 0
               /\ result.evaluation_level = "error"
               /\ result.evaluation_level # "disqualified"

\* a document whose text_content is None has been scored
C12_Witness ==
    /\ pc = "scored"
    /\ input_kind = "NoneType"
    /\ result.evaluation_level = "error"
    /\ result.total_score = 0

---------------------------------------------------------------------------
(* Claims C13 - C14, checked under Spec *)

\* low-score thresholds and numbers of template entries of the four criteria
LowThresholds == <<18, 18, 22, 15>>
TemplateSizes == <<3, 2, 3, 2>>

\* the items of the templates of criterion c
TemplateItems(c) == Range(improvement_templates[c].improvements)

\* the entries of an improvements list whose item is a template of criterion c
OfCriterion(imps, c) == SelectSeq(imps, LAMBDA e : e.item \in TemplateItems(c))

\* the entries of an improvements list that belong to no criterion
Global(imps) ==
    SelectSeq(imps, LAMBDA e : \A c \in DOMAIN improvement_templates :
                                   e.item \notin TemplateItems(c))

\* C13: with the thresholds 18, 18, 22, 15: a criterion whose score is below
\* its threshold has all its template improvements emitted (3, 2, 3, 2
\* entries), each 重要 if score < 0.7 * threshold and 推奨 otherwise; a
\* criterion at or above its threshold has none emitted.
C13_TemplatesBelowThreshold ==
    Passing =>
        \A c \in 1..4 :
            LET score == result.detailed_scores[c].score
                mine == OfCriterion(result.improvements, c)
            IN  /\ Cardinality(TemplateItems(c)) = TemplateSizes[c]
                /\ score >= 10 * LowThresholds[c] => mine = <<>>
                /\ score < 10 * LowThresholds[c] =>
                      /\ Len(mine) = TemplateSizes[c]
                      /\ {mine[i].item : i \in DOMAIN mine} = TemplateItems(c)
                      /\ \A i \in DOMAIN mine :
                            mine[i].priority = (IF score < 7 * LowThresholds[c]
                                                THEN "important" ELSE "recommended")

\* one result shows both priorities: a criterion below 0.7 * threshold with
\* 重要 entries and one between 0.7 * threshold and the threshold with 推奨
C13_Witness ==
    /\ Passing
    /\ \E c \in 1..4 :
           /\ result.detailed_scores[c].score < 7 * LowThresholds[c]
           /\ \A i \in DOMAIN OfCriterion(result.improvements, c) :
                  OfCriterion(result.improvements, c)[i].priority = "important"
    /\ \E c \in 1..4 :
           /\ result.detailed_scores[c].score >= 7 * LowThresholds[c]
           /\ result.detailed_scores[c].score < 10 * LowThresholds[c]
           /\ Len(OfCriterion(result.improvements, c)) = TemplateSizes[c]

---------------------------------------------------------------------------
(* The application pipeline and the analyzer: SpecApp *)

\* the upload gave no text: the file could not be read or its text is empty
ExtractionFailed == input_kind = "broken_pdf" \/ text_length = 0

\* C15: the pipeline calls score_application only after analyze_pdf has
\* returned success = true; when the extraction raises or yields the empty
\* string, analyze_pdf returns success = false with text_content = '' and
\* the engine is never called for that upload.
C15_ScoredOnlyAfterSuccess ==
    /\ calls >= 1 => ("success" \in DOMAIN document_analysis /\ document_analysis.success)
    /\ (pc # "uploaded" /\ ExtractionFailed) =>
          /\ document_analysis.success = FALSE
          /\ document_analysis.text_content = EmptyText
          /\ calls = 0
          /\ result = NoResult
          /\ pc \in {"analyzed", "failed"}

\* an upload with empty text has been turned away without scoring
C15_Witness ==
    /\ pc = "failed"
    /\ input_kind = "pdf"
    /\ text_length = 0
    /\ document_analysis.success = FALSE
    /\ calls = 0

\* C16 as stated: on empty input text the result of the analyzer carries a
\* content-quality score and a completeness score, both 0.
C16_EmptyTextGivesZeroedDocument ==
    (pc # "uploaded" /\ input_kind = "pdf" /\ text_length = 0) =>
        /\ "content_quality" \in DOMAIN document_analysis
        /\ "completeness_score" \in DOMAIN document_analysis
        /\ document_analysis.content_quality.quality_score = 0
        /\ document_analysis.completeness_score = 0

\* C16, amended: on empty input text analyze_pdf does not fail; it returns
\* the failure record (success = false, an error message, text_content = '')
\* with no extracted field, no content-quality score and no completeness
\* score in it; _assess_content_quality and _calculate_completeness
\* themselves give 0 on the empty text.
C16_EmptyTextGivesFailureRecord ==
    (pc # "uploaded" /\ input_kind = "pdf" /\ text_length = 0) =>
        /\ DOMAIN document_analysis = {"success", "error", "text_content"}
        /\ document_analysis.success = FALSE
        /\ document_analysis.error = "no_text"
        /\ document_analysis.text_content = EmptyText
        /\ _assess_content_quality(text, text_length).quality_score = 0
        /\ _assess_content_quality(text, text_length).numerical_data_count = 0
        /\ _assess_content_quality(text, text_length).concrete_expressions = 0
        /\ _calculate_completeness(text) = 0

\* analyze_pdf has returned for an upload whose text is empty
C16_Witness ==
    /\ pc = "analyzed"
    /\ input_kind = "pdf"
    /\ text = {}
    /\ text_length = 0
    /\ document_analysis # NoAnalysis

\* the number of required sections with a keyword in the lower-cased text
MatchedSections(doc) ==
    Cardinality({s \in DOMAIN required_sections :
        \E k \in Range(required_sections[s]) : \E i \in doc :
            IsSubstring(k, Lower(Vocab[i]))})

\* C17: completeness_score lies in [0, 1] and is the number of the six
\* topic groups with a keyword in the text, divided by 6 and rounded to two
\* decimals: one of 0, 0.17, 0.33, 0.5, 0.67, 0.83, 1.0.
C17_CompletenessIsRoundedSixths ==
    "completeness_score" \in DOMAIN document_analysis =>
        LET score == document_analysis.completeness_score
            n == MatchedSections(text)
        IN  /\ score >= 0 /\ score <= 100
            /\ score = <<0, 17, 33, 50, 67, 83, 100>>[n + 1]
            /\ 2 * 6 * score - 2 * 100 * n \in (0 - 6)..6

\* two of the six groups are matched and the score is 0.33
C17_Witness ==
    /\ "completeness_score" \in DOMAIN document_analysis
    /\ MatchedSections(text) = 2
    /\ document_analysis.completeness_score = 33
---------------------------------------------------------------------------
(* Amount extraction: SpecAmount *)

\* a numeral written as digits only, or as one to three digits followed by
\* groups of a comma and three digits
WellFormedNumeral(n) ==
    /\ Len(n) >= 1
    /\ \/ \A i \in DOMAIN n : IsDigit(n[i])
       \/ /\ \E lead \in 1..3 :
               /\ (Len(n) - lead) % 4 = 0
               /\ Len(n) > lead
               /\ \A i \in DOMAIN n :
                     IF i > lead /\ (i - lead) % 4 = 1 THEN n[i] = ch_comma
                     ELSE IsDigit(n[i])

\* the amounts extracted from the mention under its own keyword
ExtractedAmounts ==
    IF result.mention.keyword = kw_sales THEN result.sales ELSE result.profit_data

\* C18: the recorded amount of a mention is its whole numeral with the ','
\* separators removed, and the unit is carried through as written: '1,234'
\* with 万円 gives 1234 and 万円.
C18_AmountIsWholeNumeral ==
    (pc = "amount_out" /\ WellFormedNumeral(result.mention.numeral)) =>
        /\ Len(ExtractedAmounts) = 1
        /\ ExtractedAmounts[1].amount = RemoveCommas(result.mention.numeral)
        /\ ExtractedAmounts[1].unit = result.mention.unit

\* the numeral 1,234 of the claim is recorded as 1234 with its unit 万円
C18_Scenario ==
    /\ pc = "amount_out"
    /\ result.mention.numeral = <<49, ch_comma, 50, 51, 52>>
    /\ result.mention.unit = amount_units[1]
    /\ ExtractedAmounts = << [amount |-> <<49, 50, 51, 52>>, unit |-> amount_units[1]] >>

\* the numeral 1234 is recorded as 123
C18_Truncated ==
    /\ pc = "amount_out"
    /\ result.mention.numeral = <<49, 50, 51, 52>>
    /\ ExtractedAmounts[1].amount = <<49, 50, 51>>
---------------------------------------------------------------------------
(* The rubric formula and the keyword count: Spec *)

\* (0.4 * coverage + 0.3 * quality + 0.3 * specificity) * weight equals
\* contribution / SubScoreDen, for coverage = min(1.0, 1.5 * matched / n),
\* quality and specificity in thirtieths and weight in hundredths. With
\* cover = 2 n coverage = min(2 n, 3 matched) the left side is
\* (0.2 cover / n + (quality + specificity) / 100) * weight / 100; both
\* sides are multiplied by n * SubScoreDen.
IsContribution(contribution, matched, n, quality, specificity, weight) ==
    LET cover == IF 3 * matched < 2 * n THEN 3 * matched ELSE 2 * n
    IN  contribution * n = (20 * cover + n * (quality + specificity)) * weight * ListLcm

\* score, in tenths, is round(factor/10 * max_score * sum, 1) for the sum of
\* the contributions sum / SubScoreDen: it is at most half a tenth away
IsRoundedScore(score, factor, max_score, sum) ==
    LET diff == score * SubScoreDen - factor * max_score * sum
    IN  diff <= SubScoreDen \div 2 /\ diff >= 0 - (SubScoreDen \div 2)

\* C19: every sub-criterion contributes
\* (0.4 * coverage + 0.3 * quality + 0.3 * specificity) * weight with
\* coverage = min(1.0, 1.5 * matched / listSize), and a criterion's score is
\* round(max_score * sum of its contributions, 1) without strict_mode and
\* round(0.8 * max_score * sum of its contributions, 1) with it.
C19_ContributionFormula ==
    Passing =>
        LET found == FoundLower(text)
            quality == _evaluate_content_quality(text, text_length)
            specificity == _evaluate_specificity(text)
        IN  \A c \in DOMAIN scoring_criteria :
                LET subs == scoring_criteria[c].sub_criteria
                    entry == result.detailed_scores[c]
                IN  /\ DOMAIN entry.sub_scores = DOMAIN subs
                    /\ \A s \in DOMAIN subs :
                           IsContribution(entry.sub_scores[s],
                               Cardinality({k \in Range(subs[s].keywords) : k \in found}),
                               Len(subs[s].keywords), quality, specificity, subs[s].weight)
                    /\ IsRoundedScore(entry.score, IF strict_mode THEN 8 ELSE 10,
                                      scoring_criteria[c].max_score, SeqSum(entry.sub_scores))

\* a strict result with a sub-criterion whose coverage is capped, another
\* whose coverage is not, and a criterion score that the factor 0.8 changes
C19_Witness ==
    /\ Passing
    /\ strict_mode
    /\ \E c \in DOMAIN scoring_criteria :
          LET subs == scoring_criteria[c].sub_criteria
              matched(s) == Cardinality({k \in Range(subs[s].keywords) : TextHasLower(k)})
          IN  /\ \E s \in DOMAIN subs : 3 * matched(s) > 2 * Len(subs[s].keywords)
              /\ \E s \in DOMAIN subs :
                     matched(s) > 0 /\ 3 * matched(s) < 2 * Len(subs[s].keywords)
              /\ ~IsRoundedScore(result.detailed_scores[c].score, 10,
                                 scoring_criteria[c].max_score,
                                 SeqSum(result.detailed_scores[c].sub_scores))

\* C20: the matched count of a sub-criterion is the number of keywords of
\* its list that occur in the input text as they are written in the list,
\* 'PR', 'IT', 'SNS' and 'DX' among them; every contribution is the one the
\* formula gives for that count.
C20_KeywordsCountedAsWritten ==
    Passing =>
        LET quality == _evaluate_content_quality(text, text_length)
            specificity == _evaluate_specificity(text)
        IN  \A c \in DOMAIN scoring_criteria :
                LET subs == scoring_criteria[c].sub_criteria
                IN  \A s \in DOMAIN subs :
                        IsContribution(result.detailed_scores[c].sub_scores[s],
                            Cardinality({k \in Range(subs[s].keywords) : TextHas(k)}),
                            Len(subs[s].keywords), quality, specificity, subs[s].weight)

\* the text holds the keyword DX as written and the scorer has not counted it
C20_LatinKeywordNotCounted ==
    /\ Passing
    /\ TextHas(<<68, 88>>)
    /\ ~TextHasLower(<<68, 88>>)
---------------------------------------------------------------------------
(* The keyword groups of the analyzer: SpecApp *)

\* the text holds k in some letter case
TextHasInAnyCase(k) == \E i \in text : IsSubstring(Lower(k), Lower(Vocab[i]))

\* C21: in the keyword groups of the analyzer a keyword is reported as
\* matched, and a flag is true, if and only if the text contains the keyword
\* (for a flag: at least one keyword of its sub-list) in any letter case;
\* this includes the subsidy-plan keyword 'PR'.
C21_KeywordGroupsIgnoreCase ==
    "subsidy_plan" \in DOMAIN document_analysis =>
        LET plan == document_analysis.subsidy_plan
        IN  /\ plan.subsidy_items = SelectSeq(subsidy_keywords, TextHasInAnyCase)
            /\ plan.sales_development
                   = (\E k \in Range(sales_keywords) : TextHasInAnyCase(k))
            /\ plan.efficiency_improvement
                   = (\E k \in Range(efficiency_keywords) : TextHasInAnyCase(k))
            /\ plan.digital_utilization
                   = (\E k \in Range(digital_keywords) : TextHasInAnyCase(k))

\* the text holds PR and IT: IT is found through the lower-case keyword
\* 'it' of the digital list, PR is not among the reported subsidy items
C21_UpperCaseKeywordMissed ==
    /\ "subsidy_plan" \in DOMAIN document_analysis
    /\ text = GateDoc \cup CaseSample
    /\ document_analysis.subsidy_plan.digital_utilization
    /\ \A i \in DOMAIN document_analysis.subsidy_plan.subsidy_items :
           document_analysis.subsidy_plan.subsidy_items[i] # <<80, 82>>
---------------------------------------------------------------------------
(* Quality and specificity, the static tables: Spec *)

\* for each of the five numeric shapes (date, amount, headcount, percentage,
\* count) the fragments whose lower-cased text has a match
ShapeFrags ==
    << {i \in Frags : re_date(Lower(Vocab[i]))},
       {i \in Frags : re_amount(Lower(Vocab[i]))},
       {i \in Frags : re_headcount(Lower(Vocab[i]))},
       {i \in Frags : re_percent(Lower(Vocab[i]))},
       {i \in Frags : re_count(Lower(Vocab[i]))} >>

\* the number of the five numeric shapes with a match in the text
ShapesPresent == Cardinality({p \in DOMAIN ShapeFrags : ShapeFrags[p] \cap text # {}})

\* n * weight * ListLcm * (quality + specificity) of sub-criterion s of
\* criterion c, read back from the returned sub_score: what is left of
\* sub_score * n after the keyword part 20 * cover * weight * ListLcm;
\* found are the keywords in the lower-cased text
ComponentsOf(c, s, found) ==
    LET sub == scoring_criteria[c].sub_criteria[s]
        n == Len(sub.keywords)
        matched == Cardinality(Range(sub.keywords) \cap found)
        cover == IF 3 * matched < 2 * n THEN 3 * matched ELSE 2 * n
    IN  result.detailed_scores[c].sub_scores[s] * n - 20 * cover * sub.weight * ListLcm

\* the pairs (criterion, sub-criterion)
SubCriteria ==
    UNION {{<<c, s>> : s \in DOMAIN scoring_criteria[c].sub_criteria} :
           c \in DOMAIN scoring_criteria}

\* C22: within one scoring run quality and specificity depend on the text
\* only: they have the same value in all 17 sub-criteria, specificity is
\* min(1.0, 0.2 * number of the five numeric shapes present), and both lie
\* in [0, 1] (in thirtieths: 0..30, six thirtieths a shape).
C22_ComponentsDependOnTextOnly ==
    Passing =>
        LET quality == _evaluate_content_quality(text, text_length)
            specificity == _evaluate_specificity(text)
            found == FoundLower(text)
        IN  /\ Cardinality(SubCriteria) = 17
            /\ quality >= 0 /\ quality <= 30
            /\ specificity >= 0 /\ specificity <= 30
            /\ specificity = Min(30, 6 * ShapesPresent)
            /\ \A p \in SubCriteria :
                   LET sub == scoring_criteria[p[1]].sub_criteria[p[2]]
                   IN  ComponentsOf(p[1], p[2], found)
                           = Len(sub.keywords) * sub.weight * ListLcm * (quality + specificity)

\* a text with one of the five shapes, a positive quality, a sub-criterion
\* with a keyword in the text and one without
C22_Witness ==
    /\ Passing
    /\ ShapesPresent = 1
    /\ _evaluate_specificity(text) = 6
    /\ _evaluate_content_quality(text, text_length) > 0
    /\ \E p \in SubCriteria :
           \E k \in Range(scoring_criteria[p[1]].sub_criteria[p[2]].keywords) : TextHasLower(k)
    /\ \E p \in SubCriteria :
           \A k \in Range(scoring_criteria[p[1]].sub_criteria[p[2]].keywords) : ~TextHasLower(k)

\* C23: in the static scoring configuration the sub-criterion weights of
\* each of the four criteria sum to exactly 1.0 (100 hundredths), every
\* sub-criterion keyword list is non-empty, and the four max scores sum to
\* exactly 100; the max scores of a returned result are those of the table.
C23_StaticConfiguration ==
    /\ DOMAIN scoring_criteria = 1..4
    /\ \A c \in DOMAIN scoring_criteria :
           LET subs == scoring_criteria[c].sub_criteria
           IN  /\ SeqSum([s \in DOMAIN subs |-> subs[s].weight]) = 100
               /\ \A s \in DOMAIN subs : Len(subs[s].keywords) >= 1
    /\ SeqSum([c \in DOMAIN scoring_criteria |-> scoring_criteria[c].max_score]) = 100
    /\ Passing =>
           SeqSum([c \in DOMAIN result.detailed_scores |->
                       result.detailed_scores[c].max_score]) = 100

\* a result computed from the table: four criteria whose max scores sum to
\* 100, each with as many sub_scores as the table has sub-criteria
C23_Witness ==
    /\ Passing
    /\ SeqSum([c \in DOMAIN result.detailed_scores |->
                   result.detailed_scores[c].max_score]) = 100
    /\ \A c \in DOMAIN scoring_criteria :
           /\ Len(result.detailed_scores[c].sub_scores) = Len(scoring_criteria[c].sub_criteria)
           /\ result.detailed_scores[c].score > 0
---------------------------------------------------------------------------
(* The fields of a returned result: SpecSession *)

\* the fields render_scoring_results, render_improvements and
\* render_detailed_scores read from a result by subscript
PresentationFields ==
    {"total_score", "evaluation_level", "adoption_probability",
     "basic_requirements_passed", "bonus_points", "improvements", "detailed_scores"}

\* C24: every result score_application returns, passing, gate-failure or
\* internal-error, contains all the fields the presentation layer reads
\* unconditionally, so that rendering it never fails on a missing field.
C24_ResultHasPresentationFields ==
    Scored => PresentationFields \subseteq DOMAIN result

\* the result of the except branch has been returned: it has none of
\* basic_requirements_passed, bonus_points, improvements, detailed_scores
C24_ErrorResultLacksFields ==
    /\ Scored
    /\ "error" \in DOMAIN result
    /\ result.evaluation_level = "error"
    /\ PresentationFields \ DOMAIN result
           = {"basic_requirements_passed", "bonus_points", "improvements", "detailed_scores"}
---------------------------------------------------------------------------
(* Monotonicity: SpecCompare *)

Lowest(S) == CHOOSE x \in S : \A y \in S : x <= y
Highest(S) == CHOOSE x \in S : \A y \in S : x >= y

\* every outcome of X is matched by an outcome of Y that is no smaller: a
\* value that a rounding tie leaves open is compared by its lowest and by
\* its highest outcome
NoGreater(X, Y) == Lowest(X) <= Lowest(Y) /\ Highest(X) <= Highest(Y)

\* C25: for a fixed strict flag, if text B contains every rubric, bonus and
\* gate keyword, every numeric shape and every concrete expression of text A
\* and is at least as long, then every criterion score, the bonus total and
\* total_score of B are greater than or equal to those of A.
C25_ScoringIsMonotone ==
    pc = "compared" =>
        LET A == document_analysis.text_content
            firsts == score_application(A[1], A[2], strict_mode)
            seconds == score_application(text, text_length, strict_mode)
        IN  /\ A[2] <= text_length
            /\ NoGreater({r.total_score : r \in firsts}, {r.total_score : r \in seconds})
            /\ NoGreater({r.bonus_points : r \in firsts}, {r.bonus_points : r \in seconds})
            /\ result.first.basic_requirements_passed =>
                   /\ result.second.basic_requirements_passed
                   /\ \A c \in DOMAIN scoring_criteria :
                          NoGreater({r.detailed_scores[c].score : r \in firsts},
                                    {r.detailed_scores[c].score : r \in seconds})

\* a first text of 500 characters with İ and a second one of 500 characters
\* without it, which has every keyword, shape and expression of the first:
\* the second total is the smaller one
C25_LowerCaseLengthCounts ==
    /\ pc = "compared"
    /\ document_analysis.text_content[2] = 500 /\ text_length = 500
    /\ 134 \in document_analysis.text_content[1] /\ 134 \notin text
    /\ result.first.basic_requirements_passed
    /\ result.second.total_score < result.first.total_score

\* what holds of every pair: a second text whose lower-cased form is also at
\* least as long as that of the first scores at least as much
C25_MonotoneInLowerCaseLength ==
    (/\ pc = "compared"
     /\ LoweredLength(document_analysis.text_content[1], document_analysis.text_content[2])
            <= LoweredLength(text, text_length)) =>
        LET A == document_analysis.text_content
            firsts == score_application(A[1], A[2], strict_mode)
            seconds == score_application(text, text_length, strict_mode)
        IN  /\ NoGreater({r.total_score : r \in firsts}, {r.total_score : r \in seconds})
            /\ NoGreater({r.bonus_points : r \in firsts}, {r.bonus_points : r \in seconds})
            /\ result.first.basic_requirements_passed =>
                   /\ result.second.basic_requirements_passed
                   /\ \A c \in DOMAIN scoring_criteria :
                          NoGreater({r.detailed_scores[c].score : r \in firsts},
                                    {r.detailed_scores[c].score : r \in seconds})
---------------------------------------------------------------------------
(* Attainable maxima, penalties and improvements, sizes of the improvement list *)

\* C26: every declared maximum is attained: the non-strict scores of a
\* gate-passing text that has every rubric keyword as the table writes it,
\* the five numeric shapes, two concrete expressions and more than 1000
\* characters are the max scores 25, 25, 30 and 20.
C26_EveryMaximumAttained ==
    (Passing /\ ~strict_mode /\ FullDoc \subseteq text /\ text_length > 1000) =>
        \A c \in DOMAIN scoring_criteria :
            result.detailed_scores[c].score = 10 * scoring_criteria[c].max_score

\* what the scorer returns instead: the third criterion stays below 30.0
\* for every text, the other three reach their maxima
C26_DigitalCriterionBelowMaximum ==
    Passing =>
        /\ result.detailed_scores[3].score < 10 * scoring_criteria[3].max_score
        /\ (~strict_mode /\ FullDoc \subseteq text /\ text_length > 1000) =>
               \A c \in {1, 2, 4} :
                   result.detailed_scores[c].score = 10 * scoring_criteria[c].max_score

\* the items of the improvements of the returned result
ImprovementItems == {result.improvements[i].item : i \in DOMAIN result.improvements}

\* C27: in strict mode, whenever the 0.9 specificity penalty is applied (no
\* amount and no headcount pattern in the text) the improvements of the same
\* result contain 数値データの充実, and whenever the 0.7 or the 0.85 length
\* penalty is applied they contain 記載内容の充実.
C27_PenaltiesAreExplained ==
    (Passing /\ strict_mode) =>
        /\ SpecificityFactor(text) < 100 => "numeric_data" \in ImprovementItems
        /\ LengthFactor(text_length) < 100 => "fuller_content" \in ImprovementItems

\* a strict result for a text of 999 characters, İ among them: the 0.85
\* factor was applied and 記載内容の充実 is not among the improvements
C27_PenaltyWithoutImprovement ==
    /\ Passing /\ strict_mode
    /\ text_length = 999 /\ 134 \in text
    /\ LengthFactor(text_length) = 85
    /\ "fuller_content" \notin ImprovementItems

\* what holds of every strict result: the 0.9 penalty comes with
\* 数値データの充実, and a length penalty on a text that lower-casing leaves
\* below 1000 characters comes with 記載内容の充実
C27_PenaltiesExplainedUnlessLengthened ==
    (Passing /\ strict_mode) =>
        /\ SpecificityFactor(text) < 100 => "numeric_data" \in ImprovementItems
        /\ (LengthFactor(text_length) < 100 /\ LoweredLength(text, text_length) < 1000)
               => "fuller_content" \in ImprovementItems

\* the priorities of the improvements of the returned result
ImprovementPriorities ==
    {result.improvements[i].priority : i \in DOMAIN result.improvements}

\* C28: a passing result holds no improvement of priority 緊急 and between 0
\* and 12 improvements; a gate-failure result holds only 緊急 improvements,
\* between 1 and 4 of them, and has bonus_points 0 and adoption_probability 0
\* also when the text contains bonus keywords.
C28_ImprovementsByOutcome ==
    Scored =>
        IF result.basic_requirements_passed
        THEN /\ "urgent" \notin ImprovementPriorities
             /\ Len(result.improvements) \in 0..12
        ELSE /\ ImprovementPriorities = {"urgent"}
             /\ Len(result.improvements) \in 1..4
             /\ result.bonus_points = 0
             /\ result.adoption_probability = 0

\* a gate failure of a text that holds the bonus keyword 赤字: one urgent
\* improvement for each of the four groups and no bonus points
C28_Witness ==
    /\ Scored
    /\ ~result.basic_requirements_passed
    /\ TextHasLower(<<36196, 23383>>)
    /\ Len(result.improvements) = 4
    /\ result.bonus_points = 0
=============================================================================
